---------------------------- MODULE Spec2Model ----------------------------
(***************************************************************************)
(* A model of fix44-forge-helpers: the lock-free date cache behind the     *)
(* timestamp formatters (special.rs), the process-unique ID generator      *)
(* (special.rs), the integer and float codecs and the tag combinators     *)
(* (reading.rs, writing.rs), the message-buffer template with its          *)
(* BodyLength patch (buffer.rs) and the parse errors (errors.rs).          *)
(*                                                                         *)
(* Bytes are the integers 0..255.  A Rust slice is a sequence; the Rust    *)
(* offset o is the TLA+ index o + 1.  TLC's integers are 32 bits wide, so  *)
(* every u32/u64/i32/i64 quantity whose width matters is kept as a         *)
(* little-endian sequence of 16-bit limbs and the arithmetic of the code   *)
(* (wrapping multiply-add, division by 100, negation, comparison) is       *)
(* carried out on the limbs.                                               *)
(***************************************************************************)
EXTENDS Integers, Sequences, FiniteSets, TLC

VARIABLES
    \* ---- date cache (special.rs), one entry per store in modification order
    dayHist,      \* stores to CACHED_DAY: [val, dview]
    digHist,      \* stores to CACHED_YYYYMMDD: the 8 bytes of the packed word
    vDay,         \* per thread: oldest CACHED_DAY store it may still read
    vDig,         \* per thread: oldest CACHED_YYYYMMDD store it may still read
    pc,           \* per thread: position inside a formatting call
    call,         \* per thread: [kind, ts] of the call in progress
    out,          \* per thread: the bytes the call wrote to its buffer
    stores,       \* per thread: cache stores made by the call in progress
    written,      \* {[day, date]} of every call that has returned
    started,      \* formatting calls begun so far
    \* ---- ID generator (special.rs)
    COUNTER,      \* AtomicU64, four limbs
    PROCESS_TAG,  \* OnceLock<u32>: <<>> when empty, <<tag>> once set
    ipc,          \* per thread: position inside next_id_u64
    itag,         \* per thread: the tag the call read
    ifetched,     \* per thread: the counter value its fetch_add returned
    ids,          \* sequence of [id, fetched, by] in fetch order
    clords,       \* the write_tag_and_ClOrdID calls that have returned, in order
    \* ---- integer codecs (reading.rs, writing.rs)
    cty,          \* the type under test: "u16" .. "i64"
    cval,         \* the value, as limbs
    cbuf,         \* destination buffer
    cbefore,      \* the destination as it was before the call (<<>> before it)
    coff,         \* the offset given to write_T
    ctag,         \* the tag_and_eq given to a write_tag_and_T call, else <<>>
    clen,         \* length write_T returned (-1 before the write)
    cread,        \* value read_T returned (<<>> before the read)
    \* ---- message buffer (buffer.rs)
    version,      \* the version string given to forge_out_buffer
    buffer,       \* the buffer being written
    buffer1,      \* a second buffer forged from the same version, never written
    pos,          \* the caller's write position
    body,         \* the bytes of the fields appended so far
    patched,      \* end_position of the last update_body_length call, -1 if none
    before,       \* the buffer as it was before the last update_body_length call
    faulted,      \* whether the last update_body_length call panicked
    \* ---- parse errors (errors.rs)
    err,              \* the ReadError value
    overflow_checks,  \* whether the build checks arithmetic overflow
    shown,            \* what Display gave for it
    names             \* what missing_member_names gave for it

cacheVars == <<dayHist, digHist, vDay, vDig, pc, call, out, stores,
               written, started>>
idVars    == <<COUNTER, PROCESS_TAG, ipc, itag, ifetched, ids, clords>>
codecVars == <<cty, cval, cbuf, cbefore, coff, ctag, clen, cread>>
bufVars   == <<version, buffer, buffer1, pos, body, patched, before, faulted>>
errVars   == <<err, overflow_checks, shown, names>>
vars      == <<cacheVars, idVars, codecVars, bufVars, errVars>>

---------------------------------------------------------------------------
(* Bounds of the model *)

NThreads == 2        \* threads formatting timestamps / requesting IDs
MaxCalls == 2        \* formatting calls per behaviour, threads running concurrently
MaxSeqCalls == 3     \* formatting calls per behaviour, single-threaded caller
NDays == 2           \* consecutive days the instants are drawn from
MaxIds == 4          \* next_id_u64 calls per behaviour
MaxSmall == 130      \* the codecs are tried on every value 0..MaxSmall
MaxAppends == 3      \* field appends per message
MaxFormatCalls == 2  \* formatter calls per behaviour of the layout specification
MaxDateCalls == 2    \* formatter calls per behaviour of the calendar specification

---------------------------------------------------------------------------
(* ASCII *)

SOH == 1
ASCII_SPACE == 32
ASCII_MINUS == 45
ASCII_DOT == 46
ASCII_ZERO == 48
ASCII_COLON == 58

Max(a, b) == IF a >= b THEN a ELSE b
Last(s) == s[Len(s)]

\* lib.rs: the two ASCII characters of every value 0..99
DIGIT_PAIRS == <<
    48, 48, 48, 49, 48, 50, 48, 51, 48, 52, 48, 53, 48, 54, 48, 55, 48, 56, 48, 57, 49, 48, 49, 49,
    49, 50, 49, 51, 49, 52, 49, 53, 49, 54, 49, 55, 49, 56, 49, 57, 50, 48, 50, 49, 50, 50, 50, 51,
    50, 52, 50, 53, 50, 54, 50, 55, 50, 56, 50, 57, 51, 48, 51, 49, 51, 50, 51, 51, 51, 52, 51, 53,
    51, 54, 51, 55, 51, 56, 51, 57, 52, 48, 52, 49, 52, 50, 52, 51, 52, 52, 52, 53, 52, 54, 52, 55,
    52, 56, 52, 57, 53, 48, 53, 49, 53, 50, 53, 51, 53, 52, 53, 53, 53, 54, 53, 55, 53, 56, 53, 57,
    54, 48, 54, 49, 54, 50, 54, 51, 54, 52, 54, 53, 54, 54, 54, 55, 54, 56, 54, 57, 55, 48, 55, 49,
    55, 50, 55, 51, 55, 52, 55, 53, 55, 54, 55, 55, 55, 56, 55, 57, 56, 48, 56, 49, 56, 50, 56, 51,
    56, 52, 56, 53, 56, 54, 56, 55, 56, 56, 56, 57, 57, 48, 57, 49, 57, 50, 57, 51, 57, 52, 57, 53,
    57, 54, 57, 55, 57, 56, 57, 57 >>

\* copy_nonoverlapping(DIGIT_PAIRS.as_ptr().add(i * 2), dst, 2)
DigitPair(i) == << DIGIT_PAIRS[i * 2 + 1], DIGIT_PAIRS[i * 2 + 2] >>

\* copy_nonoverlapping(src, buf.as_mut_ptr().add(offset), src.len())
CopyInto(buf, offset, src) ==
    SubSeq(buf, 1, offset) \o src \o SubSeq(buf, offset + Len(src) + 1, Len(buf))

---------------------------------------------------------------------------
(* Fixed-width integers as little-endian sequences of 16-bit limbs *)

LimbBase == 2 ^ 16

RECURSIVE FromNat(_, _)
\* the W-limb value of a natural number below 2^31
FromNat(n, W) == IF W = 0 THEN << >> ELSE <<n % LimbBase>> \o FromNat(n \div LimbBase, W - 1)

IsZero(x) == \A i \in 1..Len(x) : x[i] = 0

RECURSIVE MulAddFrom(_, _, _)
MulAddFrom(x, m, carry) ==
    IF x = << >> THEN << >>
    ELSE LET v == x[1] * m + carry
         IN  <<v % LimbBase>> \o MulAddFrom(Tail(x), m, v \div LimbBase)

\* x.wrapping_mul(m).wrapping_add(a), for m up to 2^15 and a below 2^30
MulAdd(x, m, a) == MulAddFrom(x, m, a)

RECURSIVE CarryOutFrom(_, _, _)
CarryOutFrom(x, m, carry) ==
    IF x = << >> THEN carry
    ELSE CarryOutFrom(Tail(x), m, (x[1] * m + carry) \div LimbBase)

\* whether x * m + a does not fit the width of x
MulAddOverflows(x, m, a) == CarryOutFrom(x, m, a) # 0

RECURSIVE AddFrom(_, _, _)
AddFrom(x, y, carry) ==
    IF x = << >> THEN << >>
    ELSE LET v == x[1] + y[1] + carry
         IN  <<v % LimbBase>> \o AddFrom(Tail(x), Tail(y), v \div LimbBase)

\* x.wrapping_add(y)
AddL(x, y) == AddFrom(x, y, 0)

\* !x
NotL(x) == [i \in 1..Len(x) |-> LimbBase - 1 - x[i]]

\* x.wrapping_neg()
NegL(x) == MulAdd(NotL(x), 1, 1)

RECURSIVE DivRem(_, _)
\* [q |-> x / d, r |-> x % d] for a divisor up to 2^15
DivRem(x, d) ==
    IF x = << >> THEN [q |-> << >>, r |-> 0]
    ELSE LET hi == DivRem(Tail(x), d)
             v == hi.r * LimbBase + x[1]
         IN  [q |-> <<v \div d>> \o hi.q, r |-> v % d]

RECURSIVE GeFrom(_, _, _)
GeFrom(x, y, i) ==
    IF i = 0 THEN TRUE
    ELSE IF x[i] # y[i] THEN x[i] > y[i]
    ELSE GeFrom(x, y, i - 1)

\* x >= y, unsigned
GeL(x, y) == GeFrom(x, y, Len(x))

\* x << k: whole limbs first, then the remaining bits
Shl(x, k) ==
    LET j == k \div 16
        moved == [i \in 1..Len(x) |-> IF i > j THEN x[i - j] ELSE 0]
    IN  MulAdd(moved, 2 ^ (k % 16), 0)

\* x >> k
Shr(x, k) ==
    LET j == k \div 16
        moved == [i \in 1..Len(x) |-> IF i + j <= Len(x) THEN x[i + j] ELSE 0]
    IN  DivRem(moved, 2 ^ (k % 16)).q

RECURSIVE AndInt(_, _)
AndInt(a, b) ==
    IF a = 0 \/ b = 0 THEN 0
    ELSE (a % 2) * (b % 2) + 2 * AndInt(a \div 2, b \div 2)

RECURSIVE OrInt(_, _)
OrInt(a, b) ==
    IF a = 0 THEN b ELSE IF b = 0 THEN a
    ELSE Max(a % 2, b % 2) + 2 * OrInt(a \div 2, b \div 2)

\* x & y and x | y
AndL(x, y) == [i \in 1..Len(x) |-> AndInt(x[i], y[i])]
OrL(x, y) == [i \in 1..Len(x) |-> OrInt(x[i], y[i])]

\* `as` casts between unsigned widths: truncation, zero extension
Trunc(x, W) == SubSeq(x, 1, W)
ZeroExtend(x, W) == x \o [i \in 1..(W - Len(x)) |-> 0]

RECURSIVE Pow10(_, _)
\* 10^k in W limbs
Pow10(k, W) == IF k = 0 THEN FromNat(1, W) ELSE MulAdd(Pow10(k - 1, W), 10, 0)

RECURSIVE ToNat(_)
\* the number a limb sequence holds, when it is below 2^31
ToNat(x) == IF x = << >> THEN 0 ELSE x[1] + LimbBase * ToNat(Tail(x))

---------------------------------------------------------------------------
(* Date cache and timestamp formatters: special.rs *)

SECS_PER_DAY == 86400
\* u64::MAX, the sentinel CACHED_DAY starts with.  No day number equals it
\* (a day number is tv_sec / 86400 < 2^48); it is written here as the same
\* bit pattern read as a signed integer.
CACHED_DAY_INIT == -1
\* CACHED_YYYYMMDD starts as the word 0: eight zero bytes
CACHED_YYYYMMDD_INIT == <<0, 0, 0, 0, 0, 0, 0, 0>>

\* publish_date_for_day: the civil date of the day number (days since the
\* Unix epoch), rendered through DIGIT_PAIRS as the 8 bytes YYYYMMDD that are
\* packed and stored in CACHED_YYYYMMDD.  `as u16` / `as u8` are the
\* truncations of the casts.
\* the same without the century correction of the year of the era
CivilDate_Julian(day_number) ==
    LET days == day_number
        z == days + 719468
        era == z \div 146097
        doe == z - era * 146097
        yoe == (doe - doe \div 1460) \div 365
        y == yoe + era * 400
        doy == doe - (365 * yoe + yoe \div 4 - yoe \div 100)
        mp == (5 * doy + 2) \div 153
        d == doy - (153 * mp + 2) \div 5 + 1
        m == mp + (IF mp < 10 THEN 3 ELSE -9)
        year == (y + (IF m <= 2 THEN 1 ELSE 0)) % 65536
        month == m % 256
        day == d % 256
    IN  [year_hi |-> year \div 100, year_lo |-> year % 100, month |-> month, day |-> day]

CivilDate(day_number) ==
    LET days == day_number
        z == days + 719468
        era == z \div 146097
        doe == z - era * 146097
        yoe == (doe - doe \div 1460 + doe \div 36524 - doe \div 146096) \div 365
        y == yoe + era * 400
        doy == doe - (365 * yoe + yoe \div 4 - yoe \div 100)
        mp == (5 * doy + 2) \div 153
        d == doy - (153 * mp + 2) \div 5 + 1
        m == mp + (IF mp < 10 THEN 3 ELSE -9)
        year == (y + (IF m <= 2 THEN 1 ELSE 0)) % 65536
        month == m % 256
        day == d % 256
    IN  [year_hi |-> year \div 100, year_lo |-> year % 100, month |-> month, day |-> day]

\* the 8 bytes, when every index lies inside DIGIT_PAIRS
publish_date_for_day(day_number) ==
    LET c == CivilDate(day_number)
    IN  DigitPair(c.year_hi) \o DigitPair(c.year_lo) \o DigitPair(c.month) \o DigitPair(c.day)

\* DIGIT_PAIRS has 100 pairs and the copies are unchecked: an index of 100 or
\* more (year_hi for the years from 10000 on) reads the two bytes the build
\* placed behind the table, which can hold anything.  The sample has zero
\* bytes, digits, and bytes that are neither.
BehindTheTable == { <<0, 0>>, <<ASCII_ZERO, ASCII_ZERO>>, <<ASCII_COLON, 255>> }

\* what copy_nonoverlapping(DIGIT_PAIRS.as_ptr().add(i * 2), dst, 2) can copy
DigitPairRead(i) == IF i < 100 THEN {DigitPair(i)} ELSE BehindTheTable

\* the words publish_date_for_day can store in CACHED_YYYYMMDD
PublishedWords(day_number) ==
    LET c == CivilDate(day_number)
    IN  { hi \o lo \o mo \o da :
            hi \in DigitPairRead(c.year_hi), lo \in DigitPairRead(c.year_lo),
            mo \in DigitPairRead(c.month), da \in DigitPairRead(c.day) }

\* secs_u64 / SECS_PER_DAY and the remainder, 86400 = 675 * 128
DaySplit(secs_u64) ==
    LET lo == DivRem(secs_u64, 128)
        hi == DivRem(lo.q, 675)
    IN  [day_number |-> ToNat(hi.q), sec_of_day |-> hi.r * 128 + lo.r]

\* the instant sec_of_day seconds into the day: tv_sec as i64 in four limbs
Seconds(day_number, sec_of_day) ==
    MulAdd(MulAdd(FromNat(day_number, 4), 675, 0), 128, sec_of_day)

DayNumber(ts) == DaySplit(ts.tv_sec).day_number
SecOfDay(ts) == DaySplit(ts.tv_sec).sec_of_day

\* hour, minute, second as "HH:MM:SS"
TimeOfDayBytes(sec_of_day) ==
    LET hour == sec_of_day \div 3600
        minute == (sec_of_day % 3600) \div 60
        second == sec_of_day % 60
    IN  DigitPair(hour) \o <<ASCII_COLON>> \o DigitPair(minute)
            \o <<ASCII_COLON>> \o DigitPair(second)

\* a write_3 that leaves the hundreds digit '0'
write_3_NoHundreds(val) == <<ASCII_ZERO>> \o DigitPair(val % 100)

\* write_3: a value below 1000 as three digits
write_3(val) == <<ASCII_ZERO + (val \div 100)>> \o DigitPair(val % 100)

\* what format_timestamp_from_timespec / write_tag_and_current_timestamp
\* write from offset on, given the packed word they loaded; c holds the
\* call's instant and the locals it computed on entry
TimestampBytes(tag_and_eq, packed, c) ==
    LET millis == c.ts.tv_nsec \div 1000000
    IN  tag_and_eq \o packed \o <<ASCII_MINUS>> \o TimeOfDayBytes(c.sec_of_day)
            \o <<ASCII_DOT>> \o DigitPair(millis \div 10)
            \o <<ASCII_ZERO + (millis % 10)>> \o <<SOH>>

\* what format_logging_timestamp_from_timespec writes, given the packed word
LoggingBytes(packed, c) ==
    LET ns == c.ts.tv_nsec
        millis == ns \div 1000000
        micros == (ns \div 1000) % 1000
        nanos == ns % 1000
    IN  SubSeq(packed, 1, 4) \o <<ASCII_MINUS>> \o SubSeq(packed, 5, 6)
            \o <<ASCII_MINUS>> \o SubSeq(packed, 7, 8) \o <<ASCII_SPACE>>
            \o TimeOfDayBytes(c.sec_of_day) \o <<ASCII_DOT>> \o write_3(millis)
            \o <<ASCII_DOT>> \o write_3(micros) \o <<ASCII_DOT>> \o write_3(nanos)

TAG_52 == <<53, 50, 61>>     \* b"52="

\* The formatter the n-th call of a behaviour enters (n counts from 0):
\* format_timestamp_from_timespec, format_logging_timestamp_from_timespec,
\* write_tag_and_current_timestamp, and round again.  The three run the
\* same cache protocol and differ in the layout they write.
KindOfCall(n) == << "timespec", "logging", "current" >>[(n % 3) + 1]

FormatBytes(c, packed) ==
    IF c.kind = "logging" THEN LoggingBytes(packed, c)
    ELSE TimestampBytes(TAG_52, packed, c)

\* the 8 date digits inside the bytes a call wrote
DateOf(kind, bytes) ==
    IF kind = "logging"
    THEN SubSeq(bytes, 1, 4) \o SubSeq(bytes, 6, 7) \o SubSeq(bytes, 9, 10)
    ELSE SubSeq(bytes, Len(TAG_52) + 1, Len(TAG_52) + 8)

\* a fast path that never recomputes
CacheIsCurrent_Always(cached, day_number) == TRUE
\* a fast path that is never taken
CacheIsCurrent_Never(cached, day_number) == FALSE

\* ensure_date_cache's fast-path test
CacheIsCurrent(cached, day_number) == cached = day_number

Threads == 1..NThreads
FIRST_DAY == 10
Days == FIRST_DAY..(FIRST_DAY + NDays - 1)
\* the second before and the second of every midnight between the days:
\* instants of neighbouring days that straddle UTC midnight by one second
Instants ==
    {[tv_sec |-> Seconds(d - 1, SECS_PER_DAY - 1), tv_nsec |-> 123456789] : d \in Days \ {FIRST_DAY}}
    \cup {[tv_sec |-> Seconds(d, 0), tv_nsec |-> 987654321] : d \in Days \ {FIRST_DAY}}
NoCall == [kind |-> "none", ts |-> [tv_sec |-> FromNat(0, 4), tv_nsec |-> 0],
           day_number |-> 0, sec_of_day |-> 0]

CachedDay == Last(dayHist).val        \* the value CACHED_DAY holds
CachedDigits == Last(digHist)         \* the value CACHED_YYYYMMDD holds

\* The cache as the program can find it when the calls begin: never used
\* (the statics' initial values), or left current for a day by earlier calls.
InitCache ==
    /\ \E d0 \in {CACHED_DAY_INIT} \cup Days :
          /\ dayHist = << [val |-> d0, dview |-> 1] >>
          /\ digHist = << IF d0 = CACHED_DAY_INIT THEN CACHED_YYYYMMDD_INIT
                                                 ELSE publish_date_for_day(d0) >>
    /\ vDay = [t \in Threads |-> 1]
    /\ vDig = [t \in Threads |-> 1]
    /\ pc = [t \in Threads |-> "idle"]
    /\ call = [t \in Threads |-> NoCall]
    /\ out = [t \in Threads |-> << >>]
    /\ stores = [t \in Threads |-> 0]
    /\ written = {}
    /\ started = 0

\* A thread enters write_tag_and_current_timestamp (ts is the clock sample),
\* format_timestamp_from_timespec or format_logging_timestamp_from_timespec
\* (ts is the caller's instant) and computes day number and time of day.
StartCall(t, limit, kinds, instants) ==
    /\ pc[t] \in {"idle", "done"}
    /\ started < limit
    /\ \E ts \in instants, kind \in kinds :
          call' = [call EXCEPT ![t] = [kind |-> kind, ts |-> ts,
                                       day_number |-> DayNumber(ts),
                                       sec_of_day |-> SecOfDay(ts)]]
    /\ pc' = [pc EXCEPT ![t] = "ensure"]
    /\ out' = [out EXCEPT ![t] = << >>]
    /\ stores' = [stores EXCEPT ![t] = 0]
    /\ started' = started + 1
    /\ UNCHANGED <<dayHist, digHist, vDay, vDig, written>>
    /\ UNCHANGED <<idVars, codecVars, bufVars, errVars>>

\* ensure_date_cache: CACHED_DAY.load(Acquire).  The load returns a store no
\* older than the thread has already observed and, being an acquire load of
\* a release store, makes the digits store that preceded it visible.
LoadDay(t) ==
    /\ pc[t] = "ensure"
    /\ \E i \in vDay[t]..Len(dayHist) :
          /\ vDay' = [vDay EXCEPT ![t] = i]
          /\ vDig' = [vDig EXCEPT ![t] = Max(vDig[t], dayHist[i].dview)]
          /\ pc' = [pc EXCEPT ![t] =
                      IF CacheIsCurrent(dayHist[i].val, call[t].day_number)
                      THEN "copy" ELSE "publish"]
    /\ UNCHANGED <<dayHist, digHist, call, out, stores, written, started>>
    /\ UNCHANGED <<idVars, codecVars, bufVars, errVars>>

\* publish_date_for_day: CACHED_YYYYMMDD.store(packed, Relaxed)
StoreDigits(t) ==
    /\ pc[t] = "publish"
    /\ \E packed \in PublishedWords(call[t].day_number) :
          digHist' = Append(digHist, packed)
    /\ vDig' = [vDig EXCEPT ![t] = Len(digHist) + 1]
    /\ stores' = [stores EXCEPT ![t] = @ + 1]
    /\ pc' = [pc EXCEPT ![t] = "publish2"]
    /\ UNCHANGED <<dayHist, vDay, call, out, written, started>>
    /\ UNCHANGED <<idVars, codecVars, bufVars, errVars>>

\* publish_date_for_day: CACHED_DAY.store(day_number, Release)
StoreDay(t) ==
    /\ pc[t] = "publish2"
    /\ dayHist' = Append(dayHist, [val |-> call[t].day_number, dview |-> vDig[t]])
    /\ vDay' = [vDay EXCEPT ![t] = Len(dayHist) + 1]
    /\ stores' = [stores EXCEPT ![t] = @ + 1]
    /\ pc' = [pc EXCEPT ![t] = "copy"]
    /\ UNCHANGED <<digHist, vDig, call, out, written, started>>
    /\ UNCHANGED <<idVars, codecVars, bufVars, errVars>>

\* The rest of the formatter: CACHED_YYYYMMDD.load(Relaxed), then the tag,
\* the date digits, the time of day and the sub-second digits are written to
\* the caller's buffer and the call returns.
Copy(t) ==
    /\ pc[t] = "copy"
    /\ \E i \in vDig[t]..Len(digHist) :
          LET bytes == FormatBytes(call[t], digHist[i])
          IN  /\ out' = [out EXCEPT ![t] = bytes]
              /\ vDig' = [vDig EXCEPT ![t] = i]
              /\ written' = written \cup
                    {[day |-> call[t].day_number,
                      date |-> DateOf(call[t].kind, bytes)]}
    /\ pc' = [pc EXCEPT ![t] = "done"]
    /\ UNCHANGED <<dayHist, digHist, vDay, call, stores, started>>
    /\ UNCHANGED <<idVars, codecVars, bufVars, errVars>>

StartWith(t, limit) == StartCall(t, limit, {KindOfCall(started)}, Instants)

Start(t) == StartWith(t, MaxCalls)

\* the same, as the next call of a single-threaded caller
StartSeq == StartWith(1, MaxSeqCalls)

\* Instants for the layout of the formatters' output: the epoch with the
\* sub-second values of the tests, 12:34:56 on a day of 2000, the last
\* millisecond of a day of 2023, the last second of the year 9999 and the
\* first of the year 10000.
FormatInstants ==
    { [tv_sec |-> Seconds(0, 0), tv_nsec |-> 123000000],
      [tv_sec |-> Seconds(0, 0), tv_nsec |-> 987654321],
      [tv_sec |-> Seconds(11016, 45296), tv_nsec |-> 7008009],
      [tv_sec |-> Seconds(19675, 86399), tv_nsec |-> 999999999],
      [tv_sec |-> Seconds(2932896, 86399), tv_nsec |-> 1000000],
      [tv_sec |-> Seconds(2932897, 0), tv_nsec |-> 0] }

FormatKinds == {"timespec", "logging", "current"}

\* the next call of a single-threaded caller, any formatter, any instant
StartFormat == StartCall(1, MaxFormatCalls, FormatKinds, FormatInstants)

CacheStep(t) == Start(t) \/ LoadDay(t) \/ StoreDigits(t) \/ StoreDay(t) \/ Copy(t)

---------------------------------------------------------------------------
(* ID generator: special.rs *)

CNT_BITS == 32
\* (1u64 << CNT_BITS) - 1
CNT_MASK == AddL(Shl(FromNat(1, 4), CNT_BITS), NegL(FromNat(1, 4)))

\* The value splitmix64 returns inside process_tag.  Its argument mixes the
\* process id with four addresses, which the loader and the stack decide;
\* splitmix64 is a bijection of u64, so any 64-bit value can come out.  The
\* sample holds values whose fold is 0 (with and without a wrapping sum),
\* an even and an odd tag, and one whose rotation wraps around.
MixedValues ==
    { <<0, 0, 0, 0>>, <<1, 0, 65535, 65535>>, <<1, 0, 0, 0>>,
      <<65535, 65535, 0, 0>>, <<0, 32768, 1, 0>> }

\* u32::rotate_left
rotate_left(x, n) == OrL(Shl(x, n), Shr(x, 32 - n))

\* process_tag's closure: fold to 32 bits and avoid zero
FoldTag(mixed) ==
    LET t == rotate_left(AddL(Trunc(mixed, 2), Trunc(Shr(mixed, 32), 2)), 5)
    IN  IF IsZero(t) THEN FromNat(1, 2) ELSE t

\* a fetch_add that does not add
fetch_add_Lost(counter) == counter

\* the value COUNTER holds after fetch_add(1, Relaxed)
fetch_add(counter) == MulAdd(counter, 1, 1)

\* the ID without the mask on the counter
IdValue_Unmasked(tag, fetched) == OrL(Shl(ZeroExtend(tag, 4), CNT_BITS), fetched)

\* next_id_u64: (tag << CNT_BITS) | (fetched & CNT_MASK)
IdValue(tag, fetched) ==
    OrL(Shl(ZeroExtend(tag, 4), CNT_BITS), AndL(fetched, CNT_MASK))

\* The counter as the program can hold it when the calls begin: fresh, or
\* advanced by earlier calls to just below, or past, a multiple of 2^32.
InitCounters ==
    { FromNat(0, 4), <<65534, 65535, 0, 0>>, <<0, 0, 1, 0>>, <<65534, 65535, 1, 0>> }

InitId ==
    /\ COUNTER \in InitCounters
    /\ PROCESS_TAG = << >>
    /\ ipc = [t \in Threads |-> "idle"]
    /\ itag = [t \in Threads |-> << >>]
    /\ ifetched = [t \in Threads |-> << >>]
    /\ ids = << >>
    /\ clords = << >>

\* next_id_u64 (also as called by write_tag_and_ClOrdID) begins:
\* process_tag() returns PROCESS_TAG, which the first caller initializes;
\* OnceLock::get_or_init runs one closure and gives every caller its value.
ProcessTag(t) ==
    /\ ipc[t] \in {"idle", "done"}
    /\ Len(ids) + Cardinality({u \in Threads : ipc[u] = "add"}) < MaxIds
    /\ \E mixed \in MixedValues :
          PROCESS_TAG' = IF PROCESS_TAG = << >> THEN <<FoldTag(mixed)>> ELSE PROCESS_TAG
    /\ itag' = [itag EXCEPT ![t] = PROCESS_TAG'[1]]
    /\ ifetched' = [ifetched EXCEPT ![t] = << >>]
    /\ ipc' = [ipc EXCEPT ![t] = "add"]
    /\ UNCHANGED <<COUNTER, ids, clords>>
    /\ UNCHANGED <<cacheVars, codecVars, bufVars, errVars>>

\* COUNTER.fetch_add(1, Relaxed), one atomic read-modify-write; the ID is
\* put together from the fetched value and returned
FetchAdd(t) ==
    /\ ipc[t] = "add"
    /\ COUNTER' = fetch_add(COUNTER)
    /\ ifetched' = [ifetched EXCEPT ![t] = COUNTER]
    /\ ids' = Append(ids, [id |-> IdValue(itag[t], COUNTER), fetched |-> COUNTER, by |-> t])
    /\ ipc' = [ipc EXCEPT ![t] = "done"]
    /\ UNCHANGED <<PROCESS_TAG, itag, clords>>
    /\ UNCHANGED <<cacheVars, codecVars, bufVars, errVars>>

---------------------------------------------------------------------------
(* Integer codecs: writing.rs, reading.rs *)

ASCII_NINE == 57
CODEC_BUF_LEN == 20

Types == {"u16", "u32", "u64", "i16", "i32", "i64"}

\* limbs of a value of the type
LimbsOf(ty) ==
    CASE ty \in {"u16", "i16"} -> 1
      [] ty \in {"u32", "i32"} -> 2
      [] ty \in {"u64", "i64"} -> 4
      [] ty = "u128" -> 8

\* iN::MIN in two's complement: the sign bit alone
MinOf(W) == [i \in 1..W |-> IF i = W THEN 32768 ELSE 0]

\* n < 0 for a two's complement value
IsNegative(n) == n[Len(n)] >= 32768

RECURSIVE DigitsFrom(_, _)
\* the branch table of digits_uN read from its first line, d digits, down
DigitsFrom(n, d) ==
    IF d = 1 THEN 1
    ELSE IF GeL(n, Pow10(d - 1, Len(n))) THEN d
    ELSE DigitsFrom(n, d - 1)

digits_u16(n) == DigitsFrom(n, 5)
digits_u32(n) == DigitsFrom(n, 10)
\* a digits_u64 whose table stops at 19 digits
digits_u64_Nineteen(n) == DigitsFrom(n, 19)

digits_u64(n) == DigitsFrom(n, 20)

\* the most digits a u128 has
MAX_U128_DIGITS == 39

RECURSIVE Pow10Table(_, _)
\* << 10^0, .., 10^k >> in W limbs
Pow10Table(k, W) ==
    IF k = 0 THEN << FromNat(1, W) >>
    ELSE LET t == Pow10Table(k - 1, W) IN Append(t, MulAdd(t[k], 10, 0))

\* the table of the 39 powers of ten below 2^128
POW10_U128 == Pow10Table(MAX_U128_DIGITS - 1, 8)

RECURSIVE DigitsDown(_, _)
\* the loop of digits_u128: while d > 1 && d <= len && n < POW10_U128[d - 1]
DigitsDown(n, d) ==
    IF d > 1 /\ d <= Len(POW10_U128) /\ ~GeL(n, POW10_U128[d])
    THEN DigitsDown(n, d - 1)
    ELSE d

digits_u128(n) == DigitsDown(n, MAX_U128_DIGITS)

RECURSIVE WritePairs(_, _, _)
\* the body of write_uN after `let mut i = pos + len` (pos is offset here): two digits at a time
\* from the back while n >= 100, then the last digit or the last pair
WritePairs(buf, i, n) ==
    IF GeL(n, FromNat(100, Len(n)))
    THEN LET qr == DivRem(n, 100)
         IN  WritePairs(CopyInto(buf, i - 2, DigitPair(qr.r)), i - 2, qr.q)
    ELSE IF n[1] < 10
    THEN CopyInto(buf, i - 1, <<n[1] + ASCII_ZERO>>)
    ELSE CopyInto(buf, i - 2, DigitPair(n[1]))

\* write_uN(buf, pos, n): [buf |-> the buffer afterwards, len |-> the return value]
write_u16(buf, offset, n) ==
    [buf |-> WritePairs(buf, offset + digits_u16(n), n), len |-> digits_u16(n)]

write_u32(buf, offset, n) ==
    [buf |-> WritePairs(buf, offset + digits_u32(n), n), len |-> digits_u32(n)]

write_u64(buf, offset, n) ==
    [buf |-> WritePairs(buf, offset + digits_u64(n), n), len |-> digits_u64(n)]

write_u128(buf, offset, n) ==
    [buf |-> WritePairs(buf, offset + digits_u128(n), n), len |-> digits_u128(n)]

\* b"32768", b"2147483648", b"9223372036854775808"
MIN_I16_BYTES == <<51, 50, 55, 54, 56>>
MIN_I32_BYTES == <<50, 49, 52, 55, 52, 56, 51, 54, 52, 56>>
MIN_I64_BYTES == <<57, 50, 50, 51, 51, 55, 50, 48, 51, 54, 56, 53, 52, 55, 55, 53, 56, 48, 56>>

\* the branch for iN::MIN: '-' and the literal
WriteMin(buf, offset, bytes) ==
    [buf |-> CopyInto(CopyInto(buf, offset, <<ASCII_MINUS>>), offset + 1, bytes),
     len |-> 1 + Len(bytes)]

\* the branch for the other negative values: '-', then 1 + write_uN of (-n)
Signed(buf, offset, w) == [buf |-> w.buf, len |-> 1 + w.len]

write_i16(buf, offset, n) ==
    IF ~IsNegative(n) THEN write_u16(buf, offset, n)
    ELSE IF n = MinOf(1) THEN WriteMin(buf, offset, MIN_I16_BYTES)
    ELSE Signed(buf, offset,
                write_u16(CopyInto(buf, offset, <<ASCII_MINUS>>), offset + 1, NegL(n)))

write_i32(buf, offset, n) ==
    IF ~IsNegative(n) THEN write_u32(buf, offset, n)
    ELSE IF n = MinOf(2) THEN WriteMin(buf, offset, MIN_I32_BYTES)
    ELSE Signed(buf, offset,
                write_u32(CopyInto(buf, offset, <<ASCII_MINUS>>), offset + 1, NegL(n)))

write_i64(buf, offset, n) ==
    IF ~IsNegative(n) THEN write_u64(buf, offset, n)
    ELSE IF n = MinOf(4) THEN WriteMin(buf, offset, MIN_I64_BYTES)
    ELSE Signed(buf, offset,
                write_u64(CopyInto(buf, offset, <<ASCII_MINUS>>), offset + 1, NegL(n)))

\* a digit test that leaves '9' out
is_digit_ExcludesNine(b) == ASCII_ZERO <= b /\ b < ASCII_NINE

is_digit(b) == ASCII_ZERO <= b /\ b <= ASCII_NINE

RECURSIVE ReadFrom_Continues(_, _, _)
\* a loop that steps over a non-digit instead of stopping at it
ReadFrom_Continues(buf, i, r) ==
    IF i > Len(buf) THEN r
    ELSE IF ~is_digit(buf[i]) THEN ReadFrom_Continues(buf, i + 1, r)
    ELSE ReadFrom_Continues(buf, i + 1,
                  [acc |-> MulAdd(r.acc, 10, buf[i] - ASCII_ZERO),
                   overflow |-> r.overflow \/ MulAddOverflows(r.acc, 10, buf[i] - ASCII_ZERO)])

RECURSIVE ReadFrom(_, _, _)
\* the loop of read_uN from index i: the accumulator modulo the width, and
\* whether some acc * 10 + d left the width
ReadFrom(buf, i, r) ==
    IF i > Len(buf) \/ ~is_digit(buf[i]) THEN r
    ELSE ReadFrom(buf, i + 1,
                  [acc |-> MulAdd(r.acc, 10, buf[i] - ASCII_ZERO),
                   overflow |-> r.overflow \/ MulAddOverflows(r.acc, 10, buf[i] - ASCII_ZERO)])

ReadLoop(buf, W) ==
    IF Len(buf) = 0 THEN [acc |-> FromNat(0, W), overflow |-> FALSE]
    ELSE ReadFrom(buf, 1, [acc |-> FromNat(0, W), overflow |-> FALSE])

\* read_u16 computes acc * 10 + d with the plain operators: a build with
\* overflow checks panics where the product leaves 16 bits, a build without
\* them wraps.  read_u16 is the wrapped value, read_u16_overflows tells
\* whether the checked build panics.
read_u16(buf) == ReadLoop(buf, 1).acc
read_u16_overflows(buf) == ReadLoop(buf, 1).overflow

\* wrapping_mul / wrapping_add
read_u32(buf) == ReadLoop(buf, 2).acc
read_u64(buf) == ReadLoop(buf, 4).acc

read_i16(buf) ==
    IF buf = << >> THEN FromNat(0, 1)
    ELSE IF buf[1] = ASCII_MINUS
    THEN LET mag == ZeroExtend(read_u16(Tail(buf)), 2)
         IN  IF mag = Shl(FromNat(1, 2), 15) THEN MinOf(1) ELSE Trunc(NegL(mag), 1)
    ELSE read_u16(buf)

read_i32(buf) ==
    IF buf = << >> THEN FromNat(0, 2)
    ELSE IF buf[1] = ASCII_MINUS
    THEN LET mag == ZeroExtend(read_u32(Tail(buf)), 4)
         IN  IF mag = Shl(FromNat(1, 4), 31) THEN MinOf(2) ELSE Trunc(NegL(mag), 2)
    ELSE read_u32(buf)

read_i64(buf) ==
    IF buf = << >> THEN FromNat(0, 4)
    ELSE IF buf[1] = ASCII_MINUS
    THEN LET mag == read_u64(Tail(buf))
         IN  IF mag = Shl(FromNat(1, 4), 63) THEN MinOf(4) ELSE NegL(mag)
    ELSE read_u64(buf)

write_T(ty, buf, offset, n) ==
    CASE ty = "u16" -> write_u16(buf, offset, n)
      [] ty = "u32" -> write_u32(buf, offset, n)
      [] ty = "u64" -> write_u64(buf, offset, n)
      [] ty = "u128" -> write_u128(buf, offset, n)
      [] ty = "i16" -> write_i16(buf, offset, n)
      [] ty = "i32" -> write_i32(buf, offset, n)
      [] ty = "i64" -> write_i64(buf, offset, n)

read_T(ty, buf) ==
    CASE ty = "u16" -> read_u16(buf)
      [] ty = "u32" -> read_u32(buf)
      [] ty = "u64" -> read_u64(buf)
      [] ty = "i16" -> read_i16(buf)
      [] ty = "i32" -> read_i32(buf)
      [] ty = "i64" -> read_i64(buf)

\* the value that stands for a panic of the reader
Panicked == <<-1>>

\* what a call read_T(buf) can return or do, over the builds of the crate
ReadOutcomes(ty, buf) ==
    LET digits == IF buf # << >> /\ buf[1] = ASCII_MINUS /\ ty = "i16" THEN Tail(buf) ELSE buf
    IN  {read_T(ty, buf)} \cup
        (IF ty \in {"u16", "i16"} /\ read_u16_overflows(digits) THEN {Panicked} ELSE {})

\* Values of W limbs the codecs are tried on: the small ones, the ones
\* around every power of ten and around the sign bit, the top of the range,
\* and the two's complement negation of each
PositiveValues(W) ==
    {FromNat(n, W) : n \in 0..MaxSmall}
    \cup UNION {{Pow10(k, W), AddL(Pow10(k, W), FromNat(1, W)),
                 AddL(Pow10(k, W), NegL(FromNat(1, W)))} :
                    k \in 1..(IF W = 1 THEN 4 ELSE IF W = 2 THEN 9
                               ELSE IF W = 4 THEN 19 ELSE 38)}
    \cup {MinOf(W), AddL(MinOf(W), FromNat(1, W)), AddL(MinOf(W), NegL(FromNat(1, W))),
          NegL(FromNat(1, W)), NegL(FromNat(2, W))}

Values(W) == PositiveValues(W) \cup {NegL(v) : v \in PositiveValues(W)}

\* what the destination buffer holds before the write: zeros, or stale digits
Fills == {0, 55}

InitCodec ==
    /\ cty \in Types
    /\ cval \in Values(LimbsOf(cty))
    /\ \E fill \in Fills : cbuf = [i \in 1..CODEC_BUF_LEN |-> fill]
    /\ cbefore = << >>
    /\ coff = 0
    /\ ctag = << >>
    /\ clen = -1
    /\ cread = << >>

\* let written = write_T(&mut buf, offset, v)
CodecWrite ==
    /\ clen = -1
    /\ cty \in Types \cup {"u128"}
    /\ ctag = << >>
    /\ LET w == write_T(cty, cbuf, coff, cval)
       IN  cbuf' = w.buf /\ clen' = w.len
    /\ cbefore' = cbuf
    /\ UNCHANGED <<cty, cval, coff, ctag, cread>>
    /\ UNCHANGED <<cacheVars, idVars, bufVars, errVars>>

\* read_T(&buf[offset..offset + written])
CodecRead ==
    /\ clen >= 0
    /\ cread = << >>
    /\ cread' \in ReadOutcomes(cty, SubSeq(cbuf, coff + 1, coff + clen))
    /\ UNCHANGED <<cty, cval, cbuf, cbefore, coff, ctag, clen>>
    /\ UNCHANGED <<cacheVars, idVars, bufVars, errVars>>

---------------------------------------------------------------------------
(* Field writers used on the message buffer: writing.rs *)

\* a tail that returns the length but writes no SOH
Delimited_NoSOH(w, tagLen, offset) == [buf |-> w.buf, len |-> tagLen + w.len + 1]

\* the tail of write_tag_and_uN: the SOH after the value, the length returned
Delimited(w, tagLen, offset) ==
    [buf |-> CopyInto(w.buf, offset + tagLen + w.len, <<SOH>>), len |-> tagLen + w.len + 1]

\* a write_tag_and_u32 that does not count the SOH it writes
write_tag_and_u32_Uncounted(bytes, offset, tag_and_eq, value) ==
    LET w == Delimited(write_u32(CopyInto(bytes, offset, tag_and_eq),
                                 offset + Len(tag_and_eq), value),
                       Len(tag_and_eq), offset)
    IN  [buf |-> w.buf, len |-> w.len - 1]

write_tag_and_u32(bytes, offset, tag_and_eq, value) ==
    Delimited(write_u32(CopyInto(bytes, offset, tag_and_eq), offset + Len(tag_and_eq), value),
              Len(tag_and_eq), offset)

\* b'Y', b'N'
ASCII_Y == 89
ASCII_N == 78

write_tag_and_bool(bytes, offset, tag_and_eq, value) ==
    [buf |-> CopyInto(CopyInto(bytes, offset, tag_and_eq), offset + Len(tag_and_eq),
                      <<IF value THEN ASCII_Y ELSE ASCII_N, SOH>>),
     len |-> Len(tag_and_eq) + 2]

---------------------------------------------------------------------------
(* Buffer manager: buffer.rs *)

FORGE_BUFFER_SIZE == 1024
FORGE_HEADER_LEN == 20
BODY_LENGTH_VALUE_POS == 12
FORGE_WRITE_START == 20

\* "8="
BEGIN_STRING_TAG == <<56, 61>>
\* the suffix b"\x019=0000\x0135="
HEADER_SUFFIX == <<SOH, 57, 61, 48, 48, 48, 48, SOH, 51, 53, 61>>

\* "FIX.4.4", "FIX.4.2", "FIXT.1.1"
FIX_4_4 == <<70, 73, 88, 46, 52, 46, 52>>
FIX_4_2 == <<70, 73, 88, 46, 52, 46, 50>>
FIXT_1_1 == <<70, 73, 88, 84, 46, 49, 46, 49>>
Versions == {FIX_4_4, FIX_4_2, FIXT_1_1}

\* [0u8; FORGE_BUFFER_SIZE]
ZEROED == [i \in 1..FORGE_BUFFER_SIZE |-> 0]

\* a forge_out_buffer that leaves the version string out
forge_out_buffer_NoVersion(fix_version) ==
    CopyInto(CopyInto(ZEROED, 0, BEGIN_STRING_TAG), 2 + Len(fix_version), HEADER_SUFFIX)

forge_out_buffer(fix_version) ==
    LET tagged == CopyInto(ZEROED, 0, BEGIN_STRING_TAG)
        versioned == CopyInto(tagged, 2, fix_version)
    IN  CopyInto(versioned, 2 + Len(fix_version), HEADER_SUFFIX)

forge_write_start(fix_version) == FORGE_WRITE_START

\* an update_body_length without the cast to u16
update_body_length_Untruncated(buf, message_length) ==
    LET body_length == message_length - 17
    IN  CopyInto(buf, BODY_LENGTH_VALUE_POS,
                 << ASCII_ZERO + ((body_length \div 1000) % 10),
                    ASCII_ZERO + ((body_length \div 100) % 10),
                    ASCII_ZERO + ((body_length \div 10) % 10),
                    ASCII_ZERO + (body_length % 10) >>)

\* `message_length - 17` on usize: below 17 the subtraction overflows, and a
\* build with overflow checks panics there
LengthUnderflows(message_length) == message_length < 17

\* update_body_length when it returns: the buffer afterwards.  Without
\* overflow checks the difference wraps, and `as u16` keeps its low 16 bits.
update_body_length(buf, message_length) ==
    LET body_length == (message_length - 17) % 65536
        thousands == (body_length \div 1000) % 10
        hundreds == (body_length \div 100) % 10
        tens == (body_length \div 10) % 10
        units == body_length % 10
    IN  CopyInto(buf, BODY_LENGTH_VALUE_POS,
                 << ASCII_ZERO + thousands, ASCII_ZERO + hundreds,
                    ASCII_ZERO + tens, ASCII_ZERO + units >>)

\* fields a caller appends: a MsgType value, "34=" with a u32, "43=" with a bool
MsgTypes == {68}
TAG_34 == <<51, 52, 61>>
TAG_43 == <<52, 51, 61>>
SeqNums == {FromNat(7, 2), FromNat(123, 2)}
PossDupFlags == {TRUE}

\* values of end_position given to update_body_length besides the caller's
\* position: body lengths 0, 42 and 9999, one above 9999 and one above 65535,
\* and positions inside the header
EndPositions == {0, 16, 17, 59, 10016, 10029, 70017}

\* the fields appended so far, each ended by its SOH
NumFields(bytes) == Cardinality({i \in DOMAIN bytes : bytes[i] = SOH})

\* the bytes a writer call produces, taken from a buffer of its own
FieldOf(w) == SubSeq(w.buf, 1, w.len)
Scratch == [i \in 1..CODEC_BUF_LEN |-> 0]

\* let mut buffer = forge_out_buffer(v); let buffer1 = forge_out_buffer(v);
\* let mut pos = forge_write_start(v);
Forge ==
    /\ buffer = << >>
    /\ \E v \in Versions :
          /\ version' = v
          /\ buffer' = forge_out_buffer(v)
          /\ buffer1' = forge_out_buffer(v)
          /\ pos' = forge_write_start(v)
    /\ UNCHANGED <<body, patched, before, faulted>>
    /\ UNCHANGED <<cacheVars, idVars, codecVars, errVars>>

\* buffer[pos] = b'D'; pos += 1; buffer[pos] = 0x01; pos += 1;
AppendMsgType ==
    /\ buffer # << >>
    /\ ~faulted
    /\ NumFields(body) < MaxAppends
    /\ \E m \in MsgTypes :
          /\ buffer' = [buffer EXCEPT ![pos + 1] = m, ![pos + 2] = SOH]
          /\ body' = body \o <<m, SOH>>
    /\ pos' = pos + 2
    /\ patched' = -1
    /\ before' = << >>
    /\ UNCHANGED <<version, buffer1, faulted>>
    /\ UNCHANGED <<cacheVars, idVars, codecVars, errVars>>

\* pos += write_tag_and_u32(&mut buffer, pos, b"34=", value);
AppendU32 ==
    /\ buffer # << >>
    /\ ~faulted
    /\ NumFields(body) < MaxAppends
    /\ \E value \in SeqNums :
          LET w == write_tag_and_u32(buffer, pos, TAG_34, value)
          IN  /\ buffer' = w.buf
              /\ pos' = pos + w.len
              /\ body' = body \o TAG_34 \o FieldOf(write_u32(Scratch, 0, value)) \o <<SOH>>
    /\ patched' = -1
    /\ before' = << >>
    /\ UNCHANGED <<version, buffer1, faulted>>
    /\ UNCHANGED <<cacheVars, idVars, codecVars, errVars>>

\* pos += write_tag_and_bool(&mut buffer, pos, b"43=", value);
AppendBool ==
    /\ buffer # << >>
    /\ ~faulted
    /\ NumFields(body) < MaxAppends
    /\ \E value \in PossDupFlags :
          LET w == write_tag_and_bool(buffer, pos, TAG_43, value)
          IN  /\ buffer' = w.buf
              /\ pos' = pos + w.len
              /\ body' = body \o TAG_43 \o <<IF value THEN ASCII_Y ELSE ASCII_N, SOH>>
    /\ patched' = -1
    /\ before' = << >>
    /\ UNCHANGED <<version, buffer1, faulted>>
    /\ UNCHANGED <<cacheVars, idVars, codecVars, errVars>>

\* update_body_length(&mut buffer, end_position), with the caller's position
\* or with any other end position
UpdateBodyLength ==
    /\ buffer # << >>
    /\ ~faulted
    /\ \E end_position \in EndPositions \cup {pos} :
          /\ patched' = end_position
          /\ \/ /\ faulted' = FALSE
                /\ buffer' = update_body_length(buffer, end_position)
             \/ /\ LengthUnderflows(end_position)
                /\ faulted' = TRUE
                /\ buffer' = buffer
    /\ before' = buffer
    /\ UNCHANGED <<version, buffer1, pos, body>>
    /\ UNCHANGED <<cacheVars, idVars, codecVars, errVars>>

---------------------------------------------------------------------------
(* The readers on arbitrary input: reading.rs *)

\* the ASCII bytes of a tuple of decimal digits
Ascii(ds) == [i \in DOMAIN ds |-> ASCII_ZERO + ds[i]]

\* Digit runs the readers are tried on: none, zeros, leading zeros, the
\* values of the tests, and for each width the largest value, the first one
\* out of range, the magnitude of the signed minimum and its neighbours
DigitRuns ==
    { << >>, <<0>>, <<7>>, <<0, 0>>, <<0, 0, 7>>, <<1, 2, 3>>, <<9, 9, 9>>,
      <<3, 2, 7, 6, 7>>, <<3, 2, 7, 6, 8>>, <<3, 2, 7, 6, 9>>, <<4, 0, 0, 0, 0>>,
      <<6, 5, 5, 3, 5>>, <<6, 5, 5, 3, 6>>, <<9, 9, 9, 9, 9>>, <<1, 2, 3, 4, 5, 6>>,
      <<2, 1, 4, 7, 4, 8, 3, 6, 4, 7>>, <<2, 1, 4, 7, 4, 8, 3, 6, 4, 8>>,
      <<3, 0, 0, 0, 0, 0, 0, 0, 0, 0>>,
      <<4, 2, 9, 4, 9, 6, 7, 2, 9, 5>>, <<4, 2, 9, 4, 9, 6, 7, 2, 9, 6>>,
      <<1, 2, 3, 4, 5, 6, 7, 8, 9, 0, 1, 2, 3, 4, 5>>,
      <<9, 2, 2, 3, 3, 7, 2, 0, 3, 6, 8, 5, 4, 7, 7, 5, 8, 0, 7>>,
      <<9, 2, 2, 3, 3, 7, 2, 0, 3, 6, 8, 5, 4, 7, 7, 5, 8, 0, 8>>,
      <<9, 9, 9, 9, 9, 9, 9, 9, 9, 9, 9, 9, 9, 9, 9, 9, 9, 9, 9>>,
      <<1, 8, 4, 4, 6, 7, 4, 4, 0, 7, 3, 7, 0, 9, 5, 5, 1, 6, 1, 5>>,
      <<1, 8, 4, 4, 6, 7, 4, 4, 0, 7, 3, 7, 0, 9, 5, 5, 1, 6, 1, 6>>,
      <<9, 9, 9, 9, 9, 9, 9, 9, 9, 9, 9, 9, 9, 9, 9, 9, 9, 9, 9, 9, 9>> }

\* What follows the digits: nothing, "abc", '+', "-5", a space, SOH, and the
\* bytes next to '0' and '9' in ASCII ('/' and ':')
Suffixes ==
    { << >>, <<97, 98, 99>>, <<43>>, <<ASCII_MINUS, 53>>, <<ASCII_SPACE>>, <<SOH>>,
      <<47, 49>>, <<ASCII_COLON, 49>> }

\* what precedes them: nothing or a minus sign
Signs == { << >>, <<ASCII_MINUS>> }

Inputs == {sign \o Ascii(run) \o suffix : sign \in Signs, run \in DigitRuns, suffix \in Suffixes}

\* read_T(buf) is about to be called on an input
InitRead ==
    /\ cty \in Types
    /\ cval = << >>
    /\ cbuf \in Inputs
    /\ cbefore = << >>
    /\ coff = 0
    /\ ctag = << >>
    /\ clen = Len(cbuf)
    /\ cread = << >>

---------------------------------------------------------------------------
(* The writers at an offset of a larger buffer: writing.rs *)

WriteTypes == Types \cup {"u128"}

\* offsets the writers are called with
Offsets == {0, 3}

\* a destination with room for the longest value at the largest offset
Destination(fill) == [i \in 1..(3 + MAX_U128_DIGITS + 3) |-> fill]

\* write_T(&mut buf, offset, v) is about to be called
InitWrite ==
    /\ cty \in WriteTypes
    /\ cval \in Values(LimbsOf(cty))
    /\ \E fill \in Fills : cbuf = Destination(fill)
    /\ cbefore = << >>
    /\ coff \in Offsets
    /\ ctag = << >>
    /\ clen = -1
    /\ cread = << >>

---------------------------------------------------------------------------
(* Float writers and the tag combinators: writing.rs *)

\* A finite float is kept as what the writers take from it: the sign bit
\* and the scaled magnitude (x * SCALE).round(), a float that holds a
\* non-negative integer, given in limbs (four, eight, or nine when it is
\* above the range of the integer type).  A product that overflows to
\* infinity is converted like any value above the range.

\* `as u64` (W = 4) and `as u128` (W = 8) of a non-negative float: the value,
\* or the largest value of the type when it is above its range
SaturatingCast(r, W) ==
    IF Len(r) > W /\ \E i \in (W + 1)..Len(r) : r[i] # 0
    THEN [i \in 1..W |-> LimbBase - 1]
    ELSE IF Len(r) >= W THEN Trunc(r, W) ELSE ZeroExtend(r, W)

\* write_frac6_from_u32: the six digits of v, a number below 10^6
write_frac6_from_u32(v, buf, at) ==
    LET p0 == v % 100
        p1 == (v \div 100) % 100
        p2 == ((v \div 100) \div 100) % 100
    IN  [buf |-> CopyInto(buf, at, DigitPair(p2) \o DigitPair(p1) \o DigitPair(p0)),
         len |-> 6]

\* write_frac15_from_u128: one digit and seven pairs of v, given in limbs
write_frac15_from_u128(v, buf, at) ==
    LET d0 == DivRem(v, 100)
        d1 == DivRem(d0.q, 100)
        d2 == DivRem(d1.q, 100)
        d3 == DivRem(d2.q, 100)
        d4 == DivRem(d3.q, 100)
        d5 == DivRem(d4.q, 100)
        d6 == DivRem(d5.q, 100)
        hi == DivRem(d6.q, 10).r
    IN  [buf |-> CopyInto(buf, at,
                    <<hi + ASCII_ZERO>> \o DigitPair(d6.r) \o DigitPair(d5.r)
                        \o DigitPair(d4.r) \o DigitPair(d3.r) \o DigitPair(d2.r)
                        \o DigitPair(d1.r) \o DigitPair(d0.r)),
         len |-> 15]

RECURSIVE TrimZeros(_, _, _)
\* while pos > start && buf[pos - 1] == b'0' { pos -= 1 }
TrimZeros(buf, at, start) ==
    IF at > start /\ buf[at] = ASCII_ZERO THEN TrimZeros(buf, at - 1, start) ELSE at

\* the sign: '-' at offset when the sign bit is set
WriteSign(buf, offset, neg) ==
    [buf |-> IF neg THEN CopyInto(buf, offset, <<ASCII_MINUS>>) ELSE buf,
     len |-> IF neg THEN 1 ELSE 0]

\* '.', the fraction digits, and the position after the last non-zero one
WriteFraction(f, dot) ==
    [buf |-> f.buf, len |-> TrimZeros(f.buf, dot + 1 + f.len, dot + 1)]

\* write_f32(buf, offset, n) for n = [neg, scaled]
write_f32(buf, offset, n) ==
    LET sign == WriteSign(buf, offset, n.neg)
        scaled == SaturatingCast(n.scaled, 4)
        lo == DivRem(scaled, 1000)
        hi == DivRem(lo.q, 1000)
        int_part == hi.q
        frac == hi.r * 1000 + lo.r
        int == write_u64(sign.buf, offset + sign.len, int_part)
        dot == offset + sign.len + int.len
    IN  IF frac # 0
        THEN LET f == WriteFraction(
                        write_frac6_from_u32(frac, CopyInto(int.buf, dot, <<ASCII_DOT>>),
                                             dot + 1), dot)
             IN  [buf |-> f.buf, len |-> f.len - offset]
        ELSE [buf |-> int.buf, len |-> dot - offset]

\* write_f64(buf, offset, n) for n = [neg, scaled]
write_f64(buf, offset, n) ==
    LET sign == WriteSign(buf, offset, n.neg)
        scaled_u128 == SaturatingCast(n.scaled, 8)
        t1 == DivRem(scaled_u128, 1000)
        t2 == DivRem(t1.q, 1000)
        t3 == DivRem(t2.q, 1000)
        t4 == DivRem(t3.q, 1000)
        t5 == DivRem(t4.q, 1000)
        int_part == t5.q
        frac_u128 == MulAdd(MulAdd(MulAdd(MulAdd(FromNat(t5.r, 8), 1000, t4.r),
                                          1000, t3.r), 1000, t2.r), 1000, t1.r)
        int == IF \A i \in 5..8 : int_part[i] = 0
               THEN write_u64(sign.buf, offset + sign.len, Trunc(int_part, 4))
               ELSE write_u128(sign.buf, offset + sign.len, int_part)
        dot == offset + sign.len + int.len
    IN  IF ~IsZero(frac_u128)
        THEN LET f == WriteFraction(
                        write_frac15_from_u128(frac_u128,
                                               CopyInto(int.buf, dot, <<ASCII_DOT>>),
                                               dot + 1), dot)
             IN  [buf |-> f.buf, len |-> f.len - offset]
        ELSE [buf |-> int.buf, len |-> dot - offset]

write_tag_and_bytes(bytes, offset, tag_and_eq, value) ==
    [buf |-> CopyInto(CopyInto(CopyInto(bytes, offset, tag_and_eq),
                               offset + Len(tag_and_eq), value),
                      offset + Len(tag_and_eq) + Len(value), <<SOH>>),
     len |-> Len(tag_and_eq) + Len(value) + 1]

\* value.as_bytes()
write_tag_and_str(bytes, offset, tag_and_eq, value) ==
    write_tag_and_bytes(bytes, offset, tag_and_eq, value)

write_tag_and_u16(bytes, offset, tag_and_eq, value) ==
    Delimited(write_u16(CopyInto(bytes, offset, tag_and_eq), offset + Len(tag_and_eq), value),
              Len(tag_and_eq), offset)

write_tag_and_u64(bytes, offset, tag_and_eq, value) ==
    Delimited(write_u64(CopyInto(bytes, offset, tag_and_eq), offset + Len(tag_and_eq), value),
              Len(tag_and_eq), offset)

write_tag_and_i16(bytes, offset, tag_and_eq, value) ==
    Delimited(write_i16(CopyInto(bytes, offset, tag_and_eq), offset + Len(tag_and_eq), value),
              Len(tag_and_eq), offset)

write_tag_and_i32(bytes, offset, tag_and_eq, value) ==
    Delimited(write_i32(CopyInto(bytes, offset, tag_and_eq), offset + Len(tag_and_eq), value),
              Len(tag_and_eq), offset)

write_tag_and_i64(bytes, offset, tag_and_eq, value) ==
    Delimited(write_i64(CopyInto(bytes, offset, tag_and_eq), offset + Len(tag_and_eq), value),
              Len(tag_and_eq), offset)

write_tag_and_f32(bytes, offset, tag_and_eq, value) ==
    Delimited(write_f32(CopyInto(bytes, offset, tag_and_eq), offset + Len(tag_and_eq), value),
              Len(tag_and_eq), offset)

write_tag_and_f64(bytes, offset, tag_and_eq, value) ==
    Delimited(write_f64(CopyInto(bytes, offset, tag_and_eq), offset + Len(tag_and_eq), value),
              Len(tag_and_eq), offset)

TagTypes == {"bool", "bytes", "str", "u16", "u32", "u64", "i16", "i32", "i64", "f32", "f64"}

write_tag_and_T(ty, bytes, offset, tag_and_eq, value) ==
    CASE ty = "bool" -> write_tag_and_bool(bytes, offset, tag_and_eq, value)
      [] ty = "bytes" -> write_tag_and_bytes(bytes, offset, tag_and_eq, value)
      [] ty = "str" -> write_tag_and_str(bytes, offset, tag_and_eq, value)
      [] ty = "u16" -> write_tag_and_u16(bytes, offset, tag_and_eq, value)
      [] ty = "u32" -> write_tag_and_u32(bytes, offset, tag_and_eq, value)
      [] ty = "u64" -> write_tag_and_u64(bytes, offset, tag_and_eq, value)
      [] ty = "i16" -> write_tag_and_i16(bytes, offset, tag_and_eq, value)
      [] ty = "i32" -> write_tag_and_i32(bytes, offset, tag_and_eq, value)
      [] ty = "i64" -> write_tag_and_i64(bytes, offset, tag_and_eq, value)
      [] ty = "f32" -> write_tag_and_f32(bytes, offset, tag_and_eq, value)
      [] ty = "f64" -> write_tag_and_f64(bytes, offset, tag_and_eq, value)

\* integer values the combinators are tried on, in W limbs: 0, 9, 10, 123,
\* 12345, the top of the range (-1), the sign bit (the signed minimum), -123
IntSamples(W) ==
    { FromNat(0, W), FromNat(9, W), FromNat(10, W), FromNat(123, W), FromNat(12345, W),
      NegL(FromNat(1, W)), MinOf(W), NegL(FromNat(123, W)) }

\* scaled magnitudes in W limbs: 0, the smallest fraction, 0.5, one below
\* and at the scale of f32, 123.456 and 123 at that scale, 10^15 (1.0 for
\* f64), 10^15 + 10^14 (1.1), 12.345 at the scale of f64, and the top
ScaledSamples(W) ==
    { FromNat(0, W), FromNat(1, W), FromNat(500000, W), FromNat(999999, W),
      FromNat(1000000, W), FromNat(123456000, W), FromNat(123000000, W),
      Pow10(15, W), AddL(Pow10(15, W), Pow10(14, W)),
      MulAdd(Pow10(12, W), 12345, 0), NegL(FromNat(1, W)) }

\* floats whose scaled magnitude is above the range of the integer type:
\* 2^64 and 2^87 (an f32 of about 1.8e13 and one of about 1.5e20, times
\* 10^6), 2^128 (an f64 of about 3.4e23, times 10^15)
AboveRange(ty) ==
    IF ty = "f32" THEN { Shl(FromNat(1, 9), 64), Shl(FromNat(1, 9), 87) }
    ELSE { Shl(FromNat(1, 9), 128) }

FloatTypes == {"f32", "f64"}

\* the finite floats the writers are tried on
FloatValues(ty) ==
    {[neg |-> s, scaled |-> m] :
        s \in BOOLEAN, m \in ScaledSamples(IF ty = "f32" THEN 4 ELSE 8) \cup AboveRange(ty)}

write_F(ty, buf, offset, n) ==
    IF ty = "f32" THEN write_f32(buf, offset, n) ELSE write_f64(buf, offset, n)

\* room for the longest value at the largest offset
FloatDestination(fill) == [i \in 1..64 |-> fill]

\* write_f32(&mut buf, offset, n) or write_f64(&mut buf, offset, n) is about
\* to be called
InitFloat ==
    /\ cty \in FloatTypes
    /\ cval \in FloatValues(cty)
    /\ \E fill \in Fills : cbuf = FloatDestination(fill)
    /\ cbefore = << >>
    /\ coff \in Offsets
    /\ ctag = << >>
    /\ clen = -1
    /\ cread = << >>

\* let written = write_f32(&mut buf, offset, n), or write_f64
FloatWrite ==
    /\ clen = -1
    /\ cty \in FloatTypes
    /\ ctag = << >>
    /\ LET w == write_F(cty, cbuf, coff, cval)
       IN  cbuf' = w.buf /\ clen' = w.len
    /\ cbefore' = cbuf
    /\ UNCHANGED <<cty, cval, coff, ctag, cread>>
    /\ UNCHANGED <<cacheVars, idVars, bufVars, errVars>>

\* "", "D", "EUR/USD"
RawValues == { << >>, <<68>>, <<69, 85, 82, 47, 85, 83, 68>> }

TagValues(ty) ==
    CASE ty = "bool" -> BOOLEAN
      [] ty \in {"bytes", "str"} -> RawValues
      [] ty = "f32" -> {[neg |-> s, scaled |-> m] : s \in BOOLEAN, m \in ScaledSamples(4)}
      [] ty = "f64" -> {[neg |-> s, scaled |-> m] : s \in BOOLEAN, m \in ScaledSamples(8)}
      [] OTHER -> IntSamples(LimbsOf(ty))

\* b"54=", b"8=", b"1128="
Tags == { <<53, 52, 61>>, <<56, 61>>, <<49, 49, 50, 56, 61>> }

\* room for the longest tag and value at the largest offset
TagDestination(fill) == [i \in 1..64 |-> fill]

\* write_tag_and_T(&mut buf, offset, tag, value) is about to be called
InitTag ==
    /\ cty \in TagTypes
    /\ cval \in TagValues(cty)
    /\ \E fill \in Fills : cbuf = TagDestination(fill)
    /\ cbefore = << >>
    /\ coff \in Offsets
    /\ ctag \in Tags
    /\ clen = -1
    /\ cread = << >>

\* let written = write_tag_and_T(&mut buf, offset, tag, value)
TagWrite ==
    /\ clen = -1
    /\ ctag # << >>
    /\ LET w == write_tag_and_T(cty, cbuf, coff, ctag, cval)
       IN  cbuf' = w.buf /\ clen' = w.len
    /\ cbefore' = cbuf
    /\ UNCHANGED <<cty, cval, coff, ctag, cread>>
    /\ UNCHANGED <<cacheVars, idVars, bufVars, errVars>>

---------------------------------------------------------------------------
(* Base-36 encoder: special.rs *)

ASCII_A == 65

\* a digit36 that goes on with the characters after '9'
digit36_PastNine(rem) == ASCII_ZERO + rem

digit36(rem) == IF rem < 10 THEN ASCII_ZERO + rem ELSE ASCII_A + (rem - 10)

RECURSIVE Base36Loop(_, _, _, _)
\* for i in 0..13: dst[offset + 12 - i] = digit36(n % 36); n /= 36
Base36Loop(dst, offset, n, i) ==
    IF i = 13 THEN dst
    ELSE LET qr == DivRem(n, 36)
         IN  Base36Loop([dst EXCEPT ![offset + 12 - i + 1] = digit36(qr.r)],
                        offset, qr.q, i + 1)

\* a capacity test that asks for 12 bytes
HasRoom_Twelve(dst, offset) == ~(Max(Len(dst) - offset, 0) < 12)

\* !(dst.len().saturating_sub(offset) < 13)
HasRoom(dst, offset) == ~(Max(Len(dst) - offset, 0) < 13)

\* encode_base36_fixed13(dst, offset, n): [buf, len]
encode_base36_fixed13(dst, offset, n) ==
    IF ~HasRoom(dst, offset) THEN [buf |-> dst, len |-> 0]
    ELSE [buf |-> Base36Loop(dst, offset, n, 0), len |-> 13]

\* destinations of 0, 10, 12, 13, 16 and 20 bytes
Base36Lengths == {0, 10, 12, 13, 16, 20}
\* offsets inside, at the end of and beyond them
Base36Offsets == {0, 3, 7, 8, 13, 20, 25}

\* encode_base36_fixed13(&mut dst, offset, n) is about to be called
InitBase36 ==
    /\ cty = "base36"
    /\ cval \in Values(4)
    /\ \E fill \in Fills, len \in Base36Lengths : cbuf = [i \in 1..len |-> fill]
    /\ cbefore = << >>
    /\ coff \in Base36Offsets
    /\ ctag = << >>
    /\ clen = -1
    /\ cread = << >>

\* let written = encode_base36_fixed13(&mut dst, offset, n)
Encode ==
    /\ clen = -1
    /\ cty = "base36"
    /\ LET w == encode_base36_fixed13(cbuf, coff, cval)
       IN  cbuf' = w.buf /\ clen' = w.len
    /\ cbefore' = cbuf
    /\ UNCHANGED <<cty, cval, coff, ctag, cread>>
    /\ UNCHANGED <<cacheVars, idVars, bufVars, errVars>>

---------------------------------------------------------------------------
(* ClOrdID field: special.rs *)

\* a write_tag_and_ClOrdID that encodes the process tag alone
write_tag_and_ClOrdID_TagOnly(bytes, offset, tag_and_eq, id) ==
    LET tagged == CopyInto(bytes, offset, tag_and_eq)
        e      == encode_base36_fixed13(tagged, offset + Len(tag_and_eq), Shr(id, CNT_BITS))
        at     == Len(tag_and_eq) + e.len
    IN  [buf |-> [e.buf EXCEPT ![offset + at + 1] = SOH], len |-> at + 1]

\* write_tag_and_ClOrdID(bytes, offset, tag_and_eq), with the value that
\* next_id_u64() returned to it: [buf, len].  The tag and the delimiter are
\* stored without a bounds check; the destinations drawn below hold the tag
\* and the delimiter.  When encode_base36_fixed13 returns 0 the delimiter
\* follows the tag.
write_tag_and_ClOrdID(bytes, offset, tag_and_eq, id) ==
    LET tagged == CopyInto(bytes, offset, tag_and_eq)
        e      == encode_base36_fixed13(tagged, offset + Len(tag_and_eq), id)
        at     == Len(tag_and_eq) + e.len
    IN  [buf |-> [e.buf EXCEPT ![offset + at + 1] = SOH], len |-> at + 1]

\* the arguments of the calls, in the order the calls return: b"11=" at the
\* start of the buffer, b"526=" further in, and round again
ClOrdIDArgs ==
    << [tag |-> <<49, 49, 61>>, offset |-> 0],
       [tag |-> <<53, 50, 54, 61>>, offset |-> 3] >>

\* let mut buf = [0u8; 30]
ClOrdIDBuffer == [i \in 1..30 |-> 0]

\* the calls of thread t that have returned
ClOrdsOf(t) == {k \in 1..Len(clords) : clords[k].by = t}
\* the IDs next_id_u64 has returned to thread t
IdsOf(t) == {k \in 1..Len(ids) : ids[k].by = t}

\* write_tag_and_ClOrdID begins: the tag is copied and next_id_u64() is
\* entered; a thread starts a call when its previous one has returned
BeginClOrdID(t) ==
    /\ Cardinality(ClOrdsOf(t)) = Cardinality(IdsOf(t))
    /\ ProcessTag(t)

\* write_tag_and_ClOrdID goes on from the ID that next_id_u64() returned:
\* the 13 characters, the delimiter, the returned length
FinishInto(t, a, bytes) ==
    /\ ipc[t] = "done"
    /\ Cardinality(ClOrdsOf(t)) < Cardinality(IdsOf(t))
    /\ LET id == IdValue(itag[t], ifetched[t])
           w  == write_tag_and_ClOrdID(bytes, a.offset, a.tag, id)
       IN  clords' = Append(clords, [by |-> t, id |-> id, tag |-> a.tag,
                                     offset |-> a.offset, buf |-> w.buf, ret |-> w.len])
    /\ UNCHANGED <<COUNTER, PROCESS_TAG, ipc, itag, ifetched, ids>>
    /\ UNCHANGED <<cacheVars, codecVars, bufVars, errVars>>

FinishClOrdID(t) == FinishInto(t, ClOrdIDArgs[(Len(clords) % 2) + 1], ClOrdIDBuffer)

\* the same calls on destinations of any size that holds the tag and one
\* byte more: 30 bytes, 10 bytes (7 behind the tag), 19 bytes (12 behind it)
ClOrdIDSizes == <<30, 10, 19>>
FinishClOrdIDAnySize(t) ==
    LET k == Len(clords) % 3
    IN  FinishInto(t, ClOrdIDArgs[(k % 2) + 1], [i \in 1..ClOrdIDSizes[k + 1] |-> 0])

---------------------------------------------------------------------------
(* Parse errors: errors.rs *)

\* the mask is a u64
MASK_BITS == 64

DecimalDigits == <<"0", "1", "2", "3", "4", "5", "6", "7", "8", "9">>
HexDigits == DecimalDigits \o <<"A", "B", "C", "D", "E", "F">>

\* `{tag}`: a number in decimal
RECURSIVE DecimalText(_)
DecimalText(n) ==
    IF n < 10 THEN DecimalDigits[n + 1]
    ELSE DecimalText(n \div 10) \o DecimalDigits[(n % 10) + 1]

\* the sixteen hexadecimal digits of a u64, most significant first
Nibbles(mask) ==
    [k \in 1..16 |->
        LET limb  == mask[4 - ((k - 1) \div 4)]
            shift == 3 - ((k - 1) % 4)
        IN  (limb \div (16 ^ shift)) % 16]

RECURSIVE HexFrom(_, _)
HexFrom(nib, k) ==
    IF k > Len(nib) THEN "" ELSE HexDigits[nib[k] + 1] \o HexFrom(nib, k + 1)

\* `{missing_mask:0X}`: upper-case hexadecimal without leading zeros
UpperHex(mask) ==
    LET nib == Nibbles(mask)
    IN  IF IsZero(mask) THEN "0"
        ELSE HexFrom(nib, CHOOSE k \in 1..16 :
                              nib[k] # 0 /\ \A j \in 1..(k - 1) : nib[j] = 0)

\* `missing_mask >> i` overflows when i reaches the width of the mask: a
\* build with overflow checks panics there
ShiftOverflows(i) == i >= MASK_BITS

\* `(missing_mask >> i) & 1 == 1`; without overflow checks the shift amount
\* is taken modulo the width
BitSet(mask, i) == Shr(mask, i % MASK_BITS)[1] % 2 = 1

\* `match kind { 0 => "field", 1 => "component", _ => "group" }`
kind_str(kind) ==
    CASE kind = 0 -> "field"
      [] kind = 1 -> "component"
      [] OTHER    -> "group"

\* `if *kind == 2 { "...(countTag={tag})" } else { "...(tag={tag})" }`
TagLabel(kind) == IF kind = 2 THEN "countTag=" ELSE "tag="

\* what one descriptor contributes to the rendering
Item(m) == [word |-> kind_str(m.kind), name |-> m.name,
            label |-> TagLabel(m.kind), tag |-> m.tag]
ItemText(it) ==
    it.word \o " " \o it.name \o "(" \o it.label \o DecimalText(it.tag) \o ")"

\* the descriptors the loop over `meta.iter().enumerate()` selects
Selected(mask, meta) ==
    SelectSeq([i \in 1..Len(meta) |-> [at |-> i - 1, m |-> meta[i]]],
              LAMBDA e : BitSet(mask, e.at))

\* the items, with ", " before every one but the first
RECURSIVE Joined(_, _)
Joined(items, k) ==
    IF k > Len(items) THEN ""
    ELSE (IF k = 1 THEN "" ELSE ", ") \o ItemText(items[k]) \o Joined(items, k + 1)

NotCalled == [state |-> "none"]
ShiftPanic == [state |-> "panic"]

\* the loop reaches an index that overflows the shift
LoopPanics(e, checks) ==
    checks /\ \E i \in 0..(Len(e.meta) - 1) : ShiftOverflows(i)

\* impl Display for ReadError
fmt(e, checks) ==
    IF e.variant = "InvalidValue"
    THEN [state |-> "ok", items |-> << >>,
          text |-> "Invalid value for " \o e.name \o " (tag="
                       \o DecimalText(e.tag) \o "): " \o e.msg]
    ELSE IF IsZero(e.missing_mask)
    THEN [state |-> "ok", items |-> << >>,
          text |-> "No required members are missing"]
    ELSE IF LoopPanics(e, checks) THEN ShiftPanic
    ELSE LET sel   == Selected(e.missing_mask, e.meta)
             items == [k \in 1..Len(sel) |-> Item(sel[k].m)]
         IN  [state |-> "ok", items |-> items,
              text |-> "Missing required members (mask=0x"
                           \o UpperHex(e.missing_mask) \o "): "
                           \o Joined(items, 1)]

\* ReadError::missing_member_names
missing_member_names(e, checks) ==
    IF e.variant = "InvalidValue" THEN [state |-> "ok", some |-> FALSE, v |-> << >>]
    ELSE IF IsZero(e.missing_mask) THEN [state |-> "ok", some |-> TRUE, v |-> << >>]
    ELSE IF LoopPanics(e, checks) THEN ShiftPanic
    ELSE LET sel == Selected(e.missing_mask, e.meta)
         IN  [state |-> "ok", some |-> TRUE,
              v |-> [k \in 1..Len(sel) |-> sel[k].m.name]]

Descriptor(name, tag, kind) == [name |-> name, tag |-> tag, kind |-> kind]

\* the table of the tests, tables with other kind bytes, and tables as long
\* as the mask is wide and longer
TestMeta ==
    <<Descriptor("Field1", 1, 0), Descriptor("Component1", 2, 1),
      Descriptor("Group1", 3, 2)>>
OtherKinds ==
    <<Descriptor("Account", 1, 0), Descriptor("Legs", 555, 3),
      Descriptor("Parties", 453, 255)>>
LongMeta(n) == [i \in 1..n |-> Descriptor("M" \o DecimalText(i - 1), 1000 + i, (i - 1) % 3)]
Metas ==
    {<< >>, <<Descriptor("TestField", 42, 0)>>, TestMeta, OtherKinds,
     LongMeta(MASK_BITS), LongMeta(MASK_BITS + 1), LongMeta(MASK_BITS + 3)}

Masks ==
    {FromNat(0, 4), FromNat(1, 4), FromNat(2, 4), FromNat(5, 4), FromNat(6, 4),
     FromNat(7, 4), FromNat(40, 4), <<0, 0, 0, 32768>>, <<1, 0, 0, 32768>>,
     <<65535, 65535, 65535, 65535>>, <<43981, 0, 0, 0>>}

ReadErrors ==
    {[variant |-> "MissingRequiredFields", missing_mask |-> k, meta |-> m] :
        k \in Masks, m \in Metas}
    \cup {[variant |-> "InvalidValue", name |-> "TestField", tag |-> 42,
           msg |-> "Expected numeric value"],
          [variant |-> "InvalidValue", name |-> "Price", tag |-> 65535,
           msg |-> ""]}

InitError ==
    /\ err \in ReadErrors
    /\ overflow_checks \in BOOLEAN
    /\ shown = NotCalled
    /\ names = NotCalled

\* format!("{}", error)
Display ==
    /\ err.variant # "none"
    /\ shown = NotCalled
    /\ shown' = fmt(err, overflow_checks)
    /\ UNCHANGED <<err, overflow_checks, names>>
    /\ UNCHANGED <<cacheVars, idVars, codecVars, bufVars>>

\* error.missing_member_names()
MissingMemberNames ==
    /\ err.variant # "none"
    /\ names = NotCalled
    /\ names' = missing_member_names(err, overflow_checks)
    /\ UNCHANGED <<err, overflow_checks, shown>>
    /\ UNCHANGED <<cacheVars, idVars, codecVars, bufVars>>

---------------------------------------------------------------------------
(* The calendar of publish_date_for_day: special.rs *)

\* Day numbers of the years 1970 to 9999: the first and the last, and the
\* days around the ends of February and of the year in common years, leap
\* years, and century years that are and are not leap years.
LAST_DAY == 2932896
DateDays ==
    {0, 1, 58, 59, 364, 365, 789, 790, 10956, 10957, 11016, 11017, 11322,
     11323, 19675, 47540, 47541, 157113, 157114, 157115, 1000000, 2932530,
     2932531, LAST_DAY - 1, LAST_DAY}

DateInstants == {[tv_sec |-> Seconds(d, 0), tv_nsec |-> 0] : d \in DateDays}

\* the next call of a single-threaded caller, at the start of any of the days
StartDate == StartCall(1, MaxDateCalls, {"timespec"}, DateInstants)

---------------------------------------------------------------------------
(* The components a specification does not exercise stay as constructed *)

IdIdle ==
    /\ COUNTER = <<0, 0, 0, 0>>
    /\ PROCESS_TAG = << >>
    /\ ipc = [t \in Threads |-> "idle"]
    /\ itag = [t \in Threads |-> << >>]
    /\ ifetched = [t \in Threads |-> << >>]
    /\ ids = << >>
    /\ clords = << >>

CodecIdle ==
    /\ cty = "none"
    /\ cval = << >>
    /\ cbuf = << >>
    /\ cbefore = << >>
    /\ coff = 0
    /\ ctag = << >>
    /\ clen = -1
    /\ cread = << >>

BufIdle ==
    /\ version = << >>
    /\ buffer = << >>
    /\ buffer1 = << >>
    /\ pos = 0
    /\ body = << >>
    /\ patched = -1
    /\ before = << >>
    /\ faulted = FALSE

ErrIdle ==
    /\ err = [variant |-> "none"]
    /\ overflow_checks = FALSE
    /\ shown = NotCalled
    /\ names = NotCalled

---------------------------------------------------------------------------
(* Specifications of the date cache *)

\* any number of threads format timestamps concurrently
NextCache == \E t \in Threads : CacheStep(t)
InitCacheSpec == InitCache /\ IdIdle /\ CodecIdle /\ BufIdle /\ ErrIdle
SpecCache == InitCacheSpec /\ [][NextCache]_vars

\* one thread makes all the calls, one after the other
NextSeq == StartSeq \/ LoadDay(1) \/ StoreDigits(1) \/ StoreDay(1) \/ Copy(1)
SpecSeq == InitCacheSpec /\ [][NextSeq]_vars

---------------------------------------------------------------------------
(* Claims about the date cache *)

Rendering(day_number) == publish_date_for_day(day_number)
CallDay(t) == call[t].day_number
Quiescent == \A t \in Threads : pc[t] \in {"idle", "done"}

\* C1: in every interleaving of concurrent formatting calls, the 8 date
\* digits a call writes are the YYYYMMDD rendering of the day number of the
\* call's own instant.
C1_DigitsBelongToOwnDay ==
    \A t \in Threads :
        pc[t] = "done" => DateOf(call[t].kind, out[t]) = Rendering(CallDay(t))

\* C2: whenever no publish_date_for_day call is between its two stores, the
\* cache is uninitialized or CACHED_YYYYMMDD holds the rendering of the day
\* number in CACHED_DAY.
C2_CacheUninitializedOrCurrent ==
    (\A t \in Threads : pc[t] # "publish2")
        => (CachedDay = CACHED_DAY_INIT \/ CachedDigits = Rendering(CachedDay))

\* C4: in a single-threaded sequence of calls every call writes the digits of
\* its own day and leaves the cache current for that day; it stores to the
\* cache exactly when its day differs from the day cached when it began; and
\* calls for different days (such as two that straddle midnight) write
\* different date digits.
C4_SequentialCalls ==
    /\ pc[1] = "done" =>
          /\ DateOf(call[1].kind, out[1]) = Rendering(CallDay(1))
          /\ CachedDay = CallDay(1)
          /\ CachedDigits = Rendering(CallDay(1))
          /\ \/ stores[1] = 0
             \/ /\ stores[1] = 2
                /\ dayHist[Len(dayHist) - 1].val # CallDay(1)
    /\ pc[1] = "copy" /\ stores[1] = 0 => CachedDay = CallDay(1)
    /\ pc[1] = "publish" => CachedDay # CallDay(1)
    /\ \A r \in written : r.date = Rendering(r.day)
    /\ \A r1, r2 \in written : r1.day # r2.day => r1.date # r2.date

\* C4 witness: a third call has returned after a call for the other day, so
\* the cache rolled over, and it published
C4_Witness ==
    /\ pc[1] = "done" /\ started = 3 /\ stores[1] = 2
    /\ Cardinality({r.day : r \in written}) = 2
    /\ dayHist[1].val = CACHED_DAY_INIT

\* every call begun so far is for day D
OnlyDay(D) ==
    /\ \A t \in Threads : call[t] = NoCall \/ CallDay(t) = D
    /\ \A r \in written : r.day = D

\* C5: when all the calls are for instants of the same day D, from any
\* initial cache state and in every interleaving, every call writes the
\* rendering of D and once all calls have returned the cache is
\* (D, rendering of D).
C5_SameDayConverges ==
    \A D \in Days :
        OnlyDay(D) =>
            /\ \A t \in Threads :
                  pc[t] = "done" => DateOf(call[t].kind, out[t]) = Rendering(D)
            /\ \A r \in written : r.date = Rendering(D)
            /\ Quiescent /\ started > 0 =>
                  CachedDay = D /\ CachedDigits = Rendering(D)

\* C5 witness: two threads have both published day D over a cache that was
\* current for another day, and both have returned
C5_Witness ==
    \E D \in Days :
        /\ OnlyDay(D)
        /\ dayHist[1].val \notin {D, CACHED_DAY_INIT}
        /\ pc[1] = "done" /\ pc[2] = "done"
        /\ stores[1] = 2 /\ stores[2] = 2

---------------------------------------------------------------------------
(* Specification of the ID generator *)

CacheIdle ==
    /\ dayHist = << [val |-> CACHED_DAY_INIT, dview |-> 1] >>
    /\ digHist = << CACHED_YYYYMMDD_INIT >>
    /\ vDay = [t \in Threads |-> 1]
    /\ vDig = [t \in Threads |-> 1]
    /\ pc = [t \in Threads |-> "idle"]
    /\ call = [t \in Threads |-> NoCall]
    /\ out = [t \in Threads |-> << >>]
    /\ stores = [t \in Threads |-> 0]
    /\ written = {}
    /\ started = 0

InitIdSpec == CacheIdle /\ InitId /\ CodecIdle /\ BufIdle /\ ErrIdle
NextId == \E t \in Threads : ProcessTag(t) \/ FetchAdd(t)
SpecId == InitIdSpec /\ [][NextId]_vars

---------------------------------------------------------------------------
(* Claims about the ID generator *)

\* C3: the IDs returned to any number of threads are pairwise distinct
\* (within 2^32 calls).
C3_IdsPairwiseDistinct ==
    \A i, j \in 1..Len(ids) : i # j => ids[i].id # ids[j].id

\* C3 witness: two threads have each been returned IDs, across the point
\* where the low 32 bits of the counter wrap
C3_Witness ==
    /\ Len(ids) = MaxIds
    /\ \E i, j \in 1..Len(ids) : ids[i].by # ids[j].by
    /\ \E i \in 1..Len(ids) : ids[i].fetched = <<0, 0, 1, 0>>
    /\ \E i \in 1..Len(ids) : ids[i].fetched = <<65535, 65535, 0, 0>>

\* C6: every ID has the process tag, non-zero and the same for all calls and
\* threads, as its high 32 bits and the fetched counter value modulo 2^32 as
\* its low 32 bits; the k-th fetch takes the k-th counter value; a counter
\* past 2^32 leaves the high bits alone.
C6_IdLayout ==
    \A k \in 1..Len(ids) :
        /\ PROCESS_TAG # << >>
        /\ ~IsZero(PROCESS_TAG[1])
        /\ SubSeq(ids[k].id, 3, 4) = PROCESS_TAG[1]
        /\ SubSeq(ids[k].id, 1, 2) = SubSeq(ids[k].fetched, 1, 2)
        /\ ids[k].fetched = MulAdd(ids[1].fetched, 1, k - 1)
        /\ ids[1].fetched \in InitCounters

\* C6 witness: an ID was made from a counter value of 2^32 or more, with a
\* tag whose lowest bit is clear
C6_Witness ==
    \E k \in 1..Len(ids) :
        /\ ids[k].fetched[3] = 1
        /\ PROCESS_TAG[1][1] % 2 = 0
        /\ Len(ids) = MaxIds

---------------------------------------------------------------------------
(* Specification of the integer codecs: a value is written, then read back *)

InitCodecSpec == CacheIdle /\ IdIdle /\ InitCodec /\ BufIdle /\ ErrIdle
NextCodec == CodecWrite \/ CodecRead
SpecCodec == InitCodecSpec /\ [][NextCodec]_vars

\* C7: for every value v of u16, u32, u64, i16, i32 and i64, each type's
\* minimum included, read_T over exactly the bytes write_T(v) wrote returns v
\* (and does not panic).
C7_RoundTrip ==
    cread # << >> => cread = cval

\* i64::MIN has been written as "-9223372036854775808" and read back
C7_Witness ==
    /\ cread # << >>
    /\ cread = cval
    /\ cty = "i64"
    /\ cval = MinOf(4)
    /\ SubSeq(cbuf, 1, clen) = <<ASCII_MINUS>> \o MIN_I64_BYTES

---------------------------------------------------------------------------
(* Specification of the message buffer: forge, append fields, patch *)

InitBufferSpec == CacheIdle /\ IdIdle /\ CodecIdle /\ BufIdle /\ ErrIdle
NextBuffer == Forge \/ AppendMsgType \/ AppendU32 \/ AppendBool \/ UpdateBodyLength
SpecBuffer == InitBufferSpec /\ [][NextBuffer]_vars

\* four zero-padded decimal digits of a number below 10000
FourDigits(n) ==
    << ASCII_ZERO + (n \div 1000), ASCII_ZERO + ((n \div 100) % 10),
       ASCII_ZERO + ((n \div 10) % 10), ASCII_ZERO + (n % 10) >>

\* the bytes at offsets 12..15
LengthField(buf) == SubSeq(buf, BODY_LENGTH_VALUE_POS + 1, BODY_LENGTH_VALUE_POS + 4)

\* the 20 bytes "8=" v SOH "9=0000" SOH "35=" for a 7-character version
Template(v) == BEGIN_STRING_TAG \o v \o HEADER_SUFFIX

\* C8: update_body_length(buffer, end_position) with end_position >= 17
\* writes at offsets 12..15 the four zero-padded digits of
\* ((end_position - 17) mod 65536) mod 10000; that is the true body length
\* when it is at most 9999 (17 -> "0000", 59 -> "0042", 10016 -> "9999");
\* larger lengths are patched as well; the result depends only on
\* end_position: the rest of the buffer is as before, whatever the field held.
C8_BodyLengthDigits ==
    (patched >= 17) =>
        /\ LengthField(buffer) = FourDigits(((patched - 17) % 65536) % 10000)
        /\ (patched - 17 <= 9999) => LengthField(buffer) = FourDigits(patched - 17)
        /\ (patched = 17) => LengthField(buffer) = <<48, 48, 48, 48>>
        /\ (patched = 59) => LengthField(buffer) = <<48, 48, 52, 50>>
        /\ (patched = 10016) => LengthField(buffer) = <<57, 57, 57, 57>>
        /\ Len(buffer) = Len(before)
        /\ SubSeq(buffer, 1, BODY_LENGTH_VALUE_POS) = SubSeq(before, 1, BODY_LENGTH_VALUE_POS)
        /\ SubSeq(buffer, BODY_LENGTH_VALUE_POS + 5, Len(buffer))
              = SubSeq(before, BODY_LENGTH_VALUE_POS + 5, Len(before))

\* a length above 65535 has been patched over a field that held other digits
C8_Witness ==
    /\ patched = 70017
    /\ LengthField(buffer) = <<52, 52, 54, 52>>
    /\ LengthField(before) = <<57, 57, 57, 57>>

\* C9: from forge_out_buffer("FIX.4.x") and position 20, after any appends
\* followed by any number of update_body_length(buffer, pos) calls, the
\* header bytes 0..11 and 16..19 are the template's, buffer[20..pos) is the
\* concatenation of the appended fields, and the BodyLength digits are the
\* number of bytes in [17, pos) when that is at most 9999.
C9_MessageAssembled ==
    (Len(version) = 7 /\ patched = pos) =>
        /\ SubSeq(buffer, 1, 12) = SubSeq(Template(version), 1, 12)
        /\ SubSeq(buffer, 17, 20) = SubSeq(Template(version), 17, 20)
        /\ SubSeq(buffer, FORGE_WRITE_START + 1, pos) = body
        /\ pos = FORGE_WRITE_START + Len(body)
        /\ (pos - 17 <= 9999) => LengthField(buffer) = FourDigits(pos - 17)

\* the message of the crate's example, "8=FIX.4.4|9=0012|35=D|34=123|",
\* patched twice
C9_Witness ==
    /\ version = FIX_4_4
    /\ patched = pos
    /\ before = buffer
    /\ SubSeq(buffer, 1, pos) =
          <<56, 61>> \o FIX_4_4 \o <<SOH, 57, 61, 48, 48, 49, 50, SOH, 51, 53, 61,
                                     68, SOH, 51, 52, 61, 49, 50, 51, SOH>>

\* C10: forge_out_buffer(v) for a 7-character v returns 1024 bytes, the
\* first 20 being "8=" v SOH "9=0000" SOH "35=" and bytes 20..1023 zero;
\* forge_write_start returns 20; the placeholder digits are at offsets
\* 12..15; a buffer forged alongside is not changed by writes to the other.
C10_ForgedTemplate ==
    (buffer # << >> /\ Len(version) = 7) =>
        /\ Len(buffer1) = 1024
        /\ SubSeq(buffer1, 1, 20) = Template(version)
        /\ Len(Template(version)) = FORGE_HEADER_LEN
        /\ SubSeq(buffer1, 21, 1024) = SubSeq(ZEROED, 21, 1024)
        /\ forge_write_start(version) = 20
        /\ LengthField(buffer1) = <<48, 48, 48, 48>>
        /\ (body = << >> /\ patched = -1) => (buffer = buffer1 /\ pos = 20)

\* one buffer has been written and patched, the other is still the template
C10_Witness ==
    /\ version = FIX_4_2
    /\ body # << >>
    /\ patched = pos
    /\ buffer # buffer1
    /\ SubSeq(buffer1, 1, 20) = <<56, 61, 70, 73, 88, 46, 52, 46, 50, 1, 57, 61, 48, 48, 48, 48,
                                   1, 51, 53, 61>>

---------------------------------------------------------------------------
(* Specification of the readers: read_T is called on an input *)

InitReadSpec == CacheIdle /\ IdIdle /\ InitRead /\ BufIdle /\ ErrIdle
NextRead == CodecRead
SpecRead == InitReadSpec /\ [][NextRead]_vars

Unsigned == {"u16", "u32", "u64"}

\* the maximal leading run of ASCII digits of the bytes
LeadingRun(bytes) ==
    LET n == CHOOSE k \in 0..Len(bytes) :
                /\ \A i \in 1..k : bytes[i] \in 48..57
                /\ k = Len(bytes) \/ bytes[k + 1] \notin 48..57
    IN  SubSeq(bytes, 1, n)

RECURSIVE ExactValue(_, _)
\* the decimal value of the first k digits, exact, in nine limbs (144 bits)
ExactValue(digits, k) ==
    IF k = 0 THEN FromNat(0, 9)
    ELSE MulAdd(ExactValue(digits, k - 1), 10, digits[k] - 48)

ValueOf(digits) == ExactValue(digits, Len(digits))

\* the value is below 2^(16 W)
FitsIn(value, W) == \A i \in (W + 1)..Len(value) : value[i] = 0

\* C11: read_u16, read_u32 and read_u64 return the decimal value of the
\* maximal leading run of digits (a value of the type's range) and ignore
\* everything from the first non-digit on ("123abc" -> 123); the result is 0
\* for empty input and for input whose first byte is no digit.
C11_UnsignedReadsLeadingRun ==
    (cty \in Unsigned /\ cval = << >> /\ cread # << >>) =>
        LET W == LimbsOf(cty)
            value == ValueOf(LeadingRun(cbuf))
        IN  /\ FitsIn(value, W) => cread = Trunc(value, W)
            /\ (cbuf = << >> \/ cbuf[1] \notin 48..57) => cread = FromNat(0, W)
            /\ (cbuf = <<49, 50, 51, 97, 98, 99>>) => cread = FromNat(123, W)

\* read_u32 has read "123abc" as 123
C11_Witness ==
    /\ cty = "u32"
    /\ cval = << >>
    /\ cbuf = <<49, 50, 51, 97, 98, 99>>
    /\ cread = <<123, 0>>

\* C12: for every digit string, also one whose value exceeds the type's
\* range, read_u16, read_u32 and read_u64 signal no fault and return the
\* value of the digit prefix modulo 2^16, 2^32 and 2^64.
C12_UnsignedReadsWrap ==
    (cty \in Unsigned /\ cval = << >> /\ cread # << >>) =>
        cread = Trunc(ValueOf(LeadingRun(cbuf)), LimbsOf(cty))

\* C13: read_i16, read_i32 and read_i64 after a leading '-' return the
\* negation of the unsigned magnitude of the remaining bytes, exactly the
\* minimum for the magnitude 2^(w-1), and 0 for "-" and "-0"; without the
\* '-' they return the unsigned reader's value in two's complement; no
\* input, also no magnitude above 2^(w-1), causes a fault.
C13_SignedReads ==
    (cty \in Types \ Unsigned /\ cval = << >> /\ cread # << >>) =>
        LET W == LimbsOf(cty)
            negative == cbuf # << >> /\ cbuf[1] = ASCII_MINUS
            magnitude == Trunc(ValueOf(LeadingRun(IF negative THEN Tail(cbuf) ELSE cbuf)), W)
        IN  /\ cread # Panicked
            /\ negative => cread = IF magnitude = MinOf(W) THEN MinOf(W) ELSE NegL(magnitude)
            /\ ~negative => cread = magnitude
            /\ cbuf \in {<<ASCII_MINUS>>, <<ASCII_MINUS, 48>>} => cread = FromNat(0, W)

---------------------------------------------------------------------------
(* Specification of the writers: write_T is called at an offset *)

InitWriteSpec == CacheIdle /\ IdIdle /\ InitWrite /\ BufIdle /\ ErrIdle
NextWrite == CodecWrite
SpecWrite == InitWriteSpec /\ [][NextWrite]_vars

\* the bytes the call wrote: clen bytes from coff
WrittenBytes == SubSeq(cbuf, coff + 1, coff + clen)

\* 10^0 .. 10^39 in nine limbs
PowersOfTen == Pow10Table(39, 9)

\* bytes is the canonical decimal representation of the value (given in any
\* number of limbs): digits only, no leading zero but for "0", right value,
\* and as long as the value's decimal digit count
CanonicalDecimal(bytes, value) ==
    LET v == ZeroExtend(value, 9)
        k == Len(bytes)
    IN  /\ k >= 1
        /\ \A i \in 1..k : bytes[i] \in 48..57
        /\ k > 1 => bytes[1] # 48
        /\ ValueOf(bytes) = v
        /\ ~GeL(v, PowersOfTen[k + 1])
        /\ k > 1 => GeL(v, PowersOfTen[k])

\* the most bytes write_T returns for an unsigned type
MaxLen(ty) ==
    CASE ty = "u16" -> 5 [] ty = "u32" -> 10 [] ty = "u64" -> 20 [] ty = "u128" -> 39

\* C14: write_u16, write_u32, write_u64 and write_u128 write at offset the
\* canonical decimal representation of the value and return its length, the
\* value's digit count, at most 5, 10, 20 and 39; write_i16, write_i32 and
\* write_i64 write the same for non-negative values and '-' followed by the
\* decimal magnitude for negative ones, the minimum included ("-32768",
\* "-2147483648", "-9223372036854775808"), and return the length with the sign.
C14_CanonicalDecimal ==
    (cval # << >> /\ clen >= 0) =>
        IF cty \in Unsigned \cup {"u128"}
        THEN /\ CanonicalDecimal(WrittenBytes, cval)
             /\ clen <= MaxLen(cty)
             /\ IsZero(cval) => WrittenBytes = <<48>>
        ELSE IF ~IsNegative(cval)
        THEN CanonicalDecimal(WrittenBytes, cval)
        ELSE /\ WrittenBytes[1] = ASCII_MINUS
             /\ CanonicalDecimal(Tail(WrittenBytes), NegL(cval))
             /\ (cty = "i16" /\ cval = MinOf(1)) =>
                    WrittenBytes = <<45, 51, 50, 55, 54, 56>>
             /\ (cty = "i32" /\ cval = MinOf(2)) =>
                    WrittenBytes = <<45, 50, 49, 52, 55, 52, 56, 51, 54, 52, 56>>
             /\ (cty = "i64" /\ cval = MinOf(4)) =>
                    WrittenBytes = <<45, 57, 50, 50, 51, 51, 55, 50, 48, 51, 54, 56, 53, 52, 55,
                                     55, 53, 56, 48, 56>>

\* u64::MAX has been written as the 20 digits 18446744073709551615 at offset 3
C14_Witness ==
    /\ cty = "u64"
    /\ cval = <<65535, 65535, 65535, 65535>>
    /\ coff = 3
    /\ clen = 20
    /\ WrittenBytes = Ascii(<<1, 8, 4, 4, 6, 7, 4, 4, 0, 7, 3, 7, 0, 9, 5, 5, 1, 6, 1, 5>>)

---------------------------------------------------------------------------
(* Specification of the tag combinators: write_tag_and_T is called *)

InitTagSpec == CacheIdle /\ IdIdle /\ InitTag /\ BufIdle /\ ErrIdle
NextTag == TagWrite
SpecTag == InitTagSpec /\ [][NextTag]_vars

\* the bytes the primitive writer of the type produces for the value, taken
\* from a buffer of its own
PrimitiveBytes(ty, value) ==
    CASE ty = "bool" -> <<IF value THEN 89 ELSE 78>>
      [] ty \in {"bytes", "str"} -> value
      [] ty = "f32" -> FieldOf(write_f32(TagDestination(0), 0, value))
      [] ty = "f64" -> FieldOf(write_f64(TagDestination(0), 0, value))
      [] OTHER -> FieldOf(write_T(ty, TagDestination(0), 0, value))

\* C15: every write_tag_and_T(buffer, offset, tag, value) writes from offset
\* exactly the tag bytes, the bytes of the primitive writer for the value
\* ('Y' / 'N' for bool, the raw bytes for bytes and str) and one 0x01, and
\* returns tag length + value length + 1, so the byte at offset + returned - 1
\* is 0x01.
C15_TagValueDelimiter ==
    (ctag # << >> /\ clen >= 0) =>
        LET value == PrimitiveBytes(cty, cval)
        IN  /\ clen = Len(ctag) + Len(value) + 1
            /\ WrittenBytes = ctag \o value \o <<1>>
            /\ cbuf[coff + clen] = 1

\* write_tag_and_f32 has written "54=-123.456" and SOH at offset 3
C15_Witness ==
    /\ cty = "f32"
    /\ coff = 3
    /\ clen = 12
    /\ WrittenBytes = <<53, 52, 61, 45, 49, 50, 51, 46, 52, 53, 54, 1>>

---------------------------------------------------------------------------
(* Specification of the base-36 encoder: encode_base36_fixed13 is called *)

InitBase36Spec == CacheIdle /\ IdIdle /\ InitBase36 /\ BufIdle /\ ErrIdle
NextBase36 == Encode
SpecBase36 == InitBase36Spec /\ [][NextBase36]_vars

\* the value of a character of 0-9A-Z
Base36Digit(c) == IF c \in 48..57 THEN c - 48 ELSE c - 65 + 10

RECURSIVE Base36Group(_, _)
\* the base-36 value of the first k characters, for k up to 5
Base36Group(chars, k) ==
    IF k = 0 THEN 0 ELSE Base36Group(chars, k - 1) * 36 + Base36Digit(chars[k])

\* v * 36^5 + group, with 36^5 = 1296 * 1296 * 36
Base36Shift(v, group) ==
    LET a == MulAdd(v, 1296, 0)
        b == MulAdd(a, 1296, 0)
    IN  MulAdd(b, 36, group)

\* the base-36 value of 13 characters, exact, in five limbs: the groups of
\* 3, 5 and 5 characters put together
Base36Value(chars) ==
    LET hi  == Base36Group(SubSeq(chars, 1, 3), 3)
        mid == Base36Group(SubSeq(chars, 4, 8), 5)
        lo  == Base36Group(SubSeq(chars, 9, 13), 5)
        top == Base36Shift(FromNat(hi, 5), mid)
    IN  Base36Shift(top, lo)

\* C16: for every u64 n and every destination with at least 13 bytes from
\* offset, encode_base36_fixed13 returns 13 and writes exactly 13 characters
\* of 0-9A-Z, the base-36 representation of n, most significant digit first,
\* padded with '0' (0 -> "0000000000000", 35 -> "000000000000Z"); decoding
\* them gives n back, so distinct values give distinct strings.
C16_Base36Encoding ==
    (cty = "base36" /\ clen >= 0 /\ Len(cbefore) - coff >= 13) =>
        /\ clen = 13
        /\ \A i \in 1..13 : WrittenBytes[i] \in (48..57) \cup (65..90)
        /\ Base36Value(WrittenBytes) = ZeroExtend(cval, 5)
        /\ IsZero(cval) => WrittenBytes = [i \in 1..13 |-> 48]
        /\ cval = FromNat(35, 4) => WrittenBytes = [i \in 1..13 |-> IF i = 13 THEN 90 ELSE 48]
        /\ SubSeq(cbuf, 1, coff) = SubSeq(cbefore, 1, coff)
        /\ SubSeq(cbuf, coff + 14, Len(cbuf)) = SubSeq(cbefore, coff + 14, Len(cbefore))

\* u64::MAX has been encoded as "3W5E11264SGSF" in the last 13 bytes of a
\* destination
C16_Witness ==
    /\ cty = "base36"
    /\ cval = <<65535, 65535, 65535, 65535>>
    /\ coff = 7
    /\ Len(cbuf) = 20
    /\ clen = 13
    /\ WrittenBytes = <<51, 87, 53, 69, 49, 49, 50, 54, 52, 83, 71, 83, 70>>

\* C17: encode_base36_fixed13 returns 0 and leaves every byte of the
\* destination unchanged whenever fewer than 13 bytes remain from offset,
\* also when offset is at or beyond the end; it returns 13 otherwise.
C17_Base36NoRoom ==
    (cty = "base36" /\ clen >= 0) =>
        IF Len(cbefore) - coff < 13
        THEN clen = 0 /\ cbuf = cbefore
        ELSE clen = 13

\* a call with 12 bytes left from the offset has returned 0 and written
\* nothing
C17_Witness ==
    /\ cty = "base36"
    /\ clen = 0
    /\ cbuf = cbefore
    /\ Len(cbefore) = 20
    /\ coff = 8

---------------------------------------------------------------------------
(* Specification of the ClOrdID field: threads call write_tag_and_ClOrdID *)

NextClOrdID == \E t \in Threads : BeginClOrdID(t) \/ FetchAdd(t) \/ FinishClOrdID(t)
SpecClOrdID == InitIdSpec /\ [][NextClOrdID]_vars

\* the 13 characters call k wrote after its tag
ClOrdIDChars(k) ==
    SubSeq(clords[k].buf, clords[k].offset + Len(clords[k].tag) + 1,
           clords[k].offset + Len(clords[k].tag) + 13)

\* C18: write_tag_and_ClOrdID writes the tag, the 13-character base-36
\* encoding of a fresh ID and one 0x01, and returns the tag length + 14 (17
\* for a three-byte tag); each call consumes exactly one counter value; two
\* calls of the process (within 2^32 calls) write different values.
C18_ClOrdIDField ==
    /\ \A k \in 1..Len(clords) :
         LET c == clords[k]
             n == Len(c.tag)
         IN  /\ c.ret = n + 14
             /\ (n = 3 => c.ret = 17)
             /\ SubSeq(c.buf, c.offset + 1, c.offset + n) = c.tag
             /\ \A i \in 1..13 : ClOrdIDChars(k)[i] \in (48..57) \cup (65..90)
             /\ Base36Value(ClOrdIDChars(k)) = ZeroExtend(c.id, 5)
             /\ c.buf[c.offset + n + 14] = SOH
             /\ SubSeq(c.buf, 1, c.offset) = SubSeq(ClOrdIDBuffer, 1, c.offset)
             /\ SubSeq(c.buf, c.offset + c.ret + 1, 30) = SubSeq(ClOrdIDBuffer, c.offset + c.ret + 1, 30)
             /\ \E j \in 1..Len(ids) : ids[j].by = c.by /\ ids[j].id = c.id
    /\ \A t \in Threads :
         Cardinality(IdsOf(t)) \in {Cardinality(ClOrdsOf(t)), Cardinality(ClOrdsOf(t)) + 1}
    /\ Len(ids) > 0 => COUNTER = MulAdd(ids[1].fetched, 1, Len(ids))
    /\ \A j, k \in 1..Len(clords) : j # k => ClOrdIDChars(j) # ClOrdIDChars(k)

\* both threads have written ClOrdID fields, four in all, while the low 32
\* bits of the counter wrapped; one of them is the 17-byte field of b"11="
C18_Witness ==
    /\ Len(clords) = MaxIds
    /\ \E j, k \in 1..Len(clords) : clords[j].by # clords[k].by
    /\ \E k \in 1..Len(clords) : clords[k].ret = 17 /\ clords[k].offset = 0
    /\ \E k \in 1..Len(clords) : SubSeq(clords[k].id, 1, 2) = <<65535, 65535>>
    /\ \E k \in 1..Len(clords) : SubSeq(clords[k].id, 1, 2) = <<0, 0>>

---------------------------------------------------------------------------
(* Specification of the formatters' layout: one thread calls the three
   formatters, one call after the other, for instants of any year *)

NextFormat == StartFormat \/ LoadDay(1) \/ StoreDigits(1) \/ StoreDay(1) \/ Copy(1)
SpecFormat == InitCacheSpec /\ [][NextFormat]_vars

IsAsciiDigit(b) == b \in 48..57
\* a value below 100 as two characters, below 1000 as three
TwoDigits(n) == <<48 + (n \div 10), 48 + (n % 10)>>
ThreeDigits(n) == <<48 + (n \div 100), 48 + ((n \div 10) % 10), 48 + (n % 10)>>
\* (tv_sec mod 86400) div 3600, (tv_sec mod 3600) div 60, tv_sec mod 60
HourOf(tv_sec) == DivRem(DivRem(tv_sec, 3600).q, 24).r
MinuteOf(tv_sec) == DivRem(tv_sec, 3600).r \div 60
SecondOf(tv_sec) == DivRem(tv_sec, 60).r
ClockBytes(tv_sec) ==
    TwoDigits(HourOf(tv_sec)) \o <<58>> \o TwoDigits(MinuteOf(tv_sec))
        \o <<58>> \o TwoDigits(SecondOf(tv_sec))

\* the 21-byte value a timestamp call wrote after its tag
ValueOfField(bytes) == SubSeq(bytes, Len(TAG_52) + 1, Len(TAG_52) + 21)

\* C19: format_timestamp_from_timespec (and write_tag_and_current_timestamp
\* for the sampled clock), for tv_sec >= 0 and 0 <= tv_nsec < 10^9, writes
\* the tag, the 21-byte value YYYYMMDD-HH:MM:SS.mmm with '-', ':', ':', '.'
\* at value positions 8, 11, 14, 17 and ASCII digits everywhere else, then
\* 0x01, and returns tag length + 22; HH, MM, SS and mmm are those of the
\* instant; (0, 123000000) gives "19700101-00:00:00.123".
C19_TimestampLayout ==
    (pc[1] = "done" /\ call[1].kind \in {"timespec", "current"}) =>
        LET ts == call[1].ts
            v  == ValueOfField(out[1])
        IN  /\ Len(out[1]) = Len(TAG_52) + 22
            /\ SubSeq(out[1], 1, Len(TAG_52)) = TAG_52
            /\ v[9] = 45 /\ v[12] = 58 /\ v[15] = 58 /\ v[18] = 46
            /\ \A i \in (1..21) \ {9, 12, 15, 18} : IsAsciiDigit(v[i])
            /\ SubSeq(v, 10, 17) = ClockBytes(ts.tv_sec)
            /\ SubSeq(v, 19, 21) = ThreeDigits(ts.tv_nsec \div 1000000)
            /\ out[1][Len(TAG_52) + 22] = SOH
            /\ (IsZero(ts.tv_sec) /\ ts.tv_nsec = 123000000) =>
                  v = <<49, 57, 55, 48, 48, 49, 48, 49, 45, 48, 48, 58, 48, 48, 58,
                        48, 48, 46, 49, 50, 51>>

\* C20: format_logging_timestamp_from_timespec, for tv_sec >= 0 and
\* 0 <= tv_nsec < 10^9, writes exactly the 31 bytes
\* "YYYY-MM-DD HH:MM:SS.mmm.uuu.nnn" and returns 31; the date digits are
\* those of the cached YYYYMMDD with '-' inserted, and mmm, uuu, nnn are
\* tv_nsec div 10^6, (tv_nsec div 1000) mod 1000 and tv_nsec mod 1000, three
\* digits each; (0, 987654321) gives "1970-01-01 00:00:00.987.654.321".
C20_LoggingLayout ==
    (pc[1] = "done" /\ call[1].kind = "logging") =>
        LET ts == call[1].ts
            o  == out[1]
        IN  /\ Len(o) = 31
            /\ SubSeq(o, 1, 4) \o SubSeq(o, 6, 7) \o SubSeq(o, 9, 10) = CachedDigits
            /\ o[5] = 45 /\ o[8] = 45 /\ o[11] = 32
            /\ SubSeq(o, 12, 19) = ClockBytes(ts.tv_sec)
            /\ o[20] = 46 /\ o[24] = 46 /\ o[28] = 46
            /\ SubSeq(o, 21, 23) = ThreeDigits(ts.tv_nsec \div 1000000)
            /\ SubSeq(o, 25, 27) = ThreeDigits((ts.tv_nsec \div 1000) % 1000)
            /\ SubSeq(o, 29, 31) = ThreeDigits(ts.tv_nsec % 1000)
            /\ (IsZero(ts.tv_sec) /\ ts.tv_nsec = 987654321) =>
                  o = <<49, 57, 55, 48, 45, 48, 49, 45, 48, 49, 32, 48, 48, 58, 48, 48,
                        58, 48, 48, 46, 57, 56, 55, 46, 54, 53, 52, 46, 51, 50, 49>>

\* the logging formatter has written "2000-02-29 12:34:56.007.008.009", a
\* value with leading zeros in all three sub-second groups
C20_Witness ==
    /\ pc[1] = "done"
    /\ call[1].kind = "logging"
    /\ call[1].ts = [tv_sec |-> Seconds(11016, 45296), tv_nsec |-> 7008009]
    /\ out[1] = <<50, 48, 48, 48, 45, 48, 50, 45, 50, 57, 32, 49, 50, 58, 51, 52, 58,
                  53, 54, 46, 48, 48, 55, 46, 48, 48, 56, 46, 48, 48, 57>>

---------------------------------------------------------------------------
(* Specification of the float writers: write_f32 or write_f64 is called *)

InitFloatSpec == CacheIdle /\ IdIdle /\ InitFloat /\ BufIdle /\ ErrIdle
NextFloat == FloatWrite
SpecFloat == InitFloatSpec /\ [][NextFloat]_vars

RECURSIVE DecimalOf(_)
\* the decimal digits of a positive value in limbs, none for 0
DecimalOf(v) ==
    IF IsZero(v) THEN << >>
    ELSE LET qr == DivRem(v, 10)
             front == DecimalOf(qr.q)
         IN  front \o <<48 + qr.r>>

RECURSIVE SplitAt(_, _)
\* [int, frac]: the value without its last k decimal digits, and those
\* digits, most significant first
SplitAt(v, k) ==
    IF k = 0 THEN [int |-> v, frac |-> << >>]
    ELSE LET qr == DivRem(v, 10)
             rest == SplitAt(qr.q, k - 1)
         IN  [int |-> rest.int, frac |-> rest.frac \o <<48 + qr.r>>]

RECURSIVE WithoutTrailingZeros(_)
WithoutTrailingZeros(ds) ==
    IF ds # << >> /\ ds[Len(ds)] = 48
    THEN WithoutTrailingZeros(SubSeq(ds, 1, Len(ds) - 1)) ELSE ds

\* the text of the claim for sign bit neg and rounded scaled magnitude S
\* with k fraction digits
FloatText(neg, S, k) ==
    LET parts == SplitAt(S, k)
        int == DecimalOf(parts.int)
        frac == WithoutTrailingZeros(parts.frac)
    IN  (IF neg THEN <<45>> ELSE << >>)
            \o (IF int = << >> THEN <<48>> ELSE int)
            \o (IF frac = << >> THEN << >> ELSE <<46>> \o frac)

FractionDigits(ty) == IF ty = "f32" THEN 6 ELSE 15

\* C21: write_f32 (6 fraction digits) and write_f64 (15), for a finite value
\* whose rounded scaled magnitude is the integer S, write '-' exactly when
\* the sign bit is set, the decimal integer S div scale and, only when
\* S mod scale is not 0, '.' and the fraction digits without trailing zeros;
\* the output never ends in '.' nor in a '0' after a '.'.
C21_FloatText ==
    (cty \in FloatTypes /\ clen >= 0) =>
        /\ WrittenBytes = FloatText(cval.neg, cval.scaled, FractionDigits(cty))
        /\ WrittenBytes[clen] # 46
        /\ (\E i \in 1..clen : WrittenBytes[i] = 46) => WrittenBytes[clen] # 48

---------------------------------------------------------------------------
(* Specification of the parse errors *)

InitErrorSpec == CacheIdle /\ IdIdle /\ CodecIdle /\ BufIdle /\ InitError
NextError == Display \/ MissingMemberNames
SpecError == InitErrorSpec /\ [][NextError]_vars

IsMissing(e) == e.variant = "MissingRequiredFields"

\* bit i of a 64-bit mask; the mask has no bit at 64 and above
MaskBit(mask, i) ==
    /\ i < 64
    /\ (mask[(i \div 16) + 1] \div (2 ^ (i % 16))) % 2 = 1

\* the descriptors whose bit is set, in descriptor order
MissingDescriptors(e) ==
    LET at == SelectSeq([i \in 1..Len(e.meta) |-> i],
                        LAMBDA i : MaskBit(e.missing_mask, i - 1))
    IN  [k \in 1..Len(at) |-> e.meta[at[k]]]

\* a descriptor as the rendering words it
Phrase(m) ==
    CASE m.kind = 0 -> "field " \o m.name \o "(tag=" \o ToString(m.tag) \o ")"
      [] m.kind = 1 -> "component " \o m.name \o "(tag=" \o ToString(m.tag) \o ")"
      [] m.kind = 2 -> "group " \o m.name \o "(countTag=" \o ToString(m.tag) \o ")"

RECURSIVE CommaJoined(_)
CommaJoined(ms) ==
    IF ms = << >> THEN ""
    ELSE IF Len(ms) = 1 THEN Phrase(ms[1])
    ELSE Phrase(ms[1]) \o ", " \o CommaJoined(Tail(ms))

KnownKinds(e) == \A i \in 1..Len(e.meta) : e.meta[i].kind \in {0, 1, 2}

\* C22: Display renders a MissingRequiredFields value as the descriptors
\* whose bit is set, in descriptor order, joined by ", ", each phrased by its
\* kind 0, 1 or 2; a zero mask renders the fixed text whatever the
\* descriptors; an InvalidValue renders as
\* "Invalid value for <name> (tag=<tag>): <message>".
C22_Display ==
    (err.variant # "none" /\ shown # NotCalled) =>
        /\ shown.state = "ok"
        /\ IF ~IsMissing(err)
           THEN shown.text = "Invalid value for " \o err.name \o " (tag="
                                 \o ToString(err.tag) \o "): " \o err.msg
           ELSE IF IsZero(err.missing_mask)
           THEN shown.text = "No required members are missing"
           ELSE KnownKinds(err) =>
                    shown.text = "Missing required members (mask=0x"
                                     \o UpperHex(err.missing_mask) \o "): "
                                     \o CommaJoined(MissingDescriptors(err))

\* C23: missing_member_names gives, in descriptor order, the names of the
\* descriptors whose bit is set, a present but empty list for a zero mask,
\* and None for an InvalidValue; the names are those of the descriptors
\* Display lists, in the same order.
C23_MissingMemberNames ==
    (err.variant # "none" /\ names # NotCalled) =>
        /\ names.state = "ok"
        /\ names.some = IsMissing(err)
        /\ IsMissing(err) =>
               LET ms == MissingDescriptors(err)
               IN  names.v = [k \in 1..Len(ms) |-> ms[k].name]
        /\ (shown # NotCalled /\ IsMissing(err) /\ ~IsZero(err.missing_mask)) =>
               /\ shown.state = "ok"
               /\ names.v = [k \in 1..Len(shown.items) |-> shown.items[k].name]

\* C24: Display and missing_member_names never fail, whatever the mask and
\* the descriptor table: no descriptor at index 64 or above is reported, and
\* mask bits at or beyond the number of descriptors are ignored.
C24_NeverFails ==
    /\ shown.state # "panic"
    /\ names.state # "panic"
    /\ (shown.state = "ok" /\ IsMissing(err) /\ ~IsZero(err.missing_mask)) =>
           LET ms == MissingDescriptors(err)
           IN  [k \in 1..Len(shown.items) |-> shown.items[k].name]
                   = [k \in 1..Len(ms) |-> ms[k].name]
    /\ (names.state = "ok" /\ IsMissing(err)) =>
           LET ms == MissingDescriptors(err)
           IN  names.v = [k \in 1..Len(ms) |-> ms[k].name]

\* C30: in the rendering of a MissingRequiredFields value the kind word and
\* the tag label agree whatever the kind byte: the word "group" always goes
\* with "countTag=", and "tag=" only with "field" or "component".
C30_WordAndLabelAgree ==
    (shown.state = "ok" /\ IsMissing(err)) =>
        \A k \in 1..Len(shown.items) :
            /\ shown.items[k].word = "group" => shown.items[k].label = "countTag="
            /\ shown.items[k].label = "tag=" =>
                   shown.items[k].word \in {"field", "component"}

---------------------------------------------------------------------------
(* Specification of the calendar *)

NextDate == StartDate \/ LoadDay(1) \/ StoreDigits(1) \/ StoreDay(1) \/ Copy(1)
SpecDate == InitCacheSpec /\ [][NextDate]_vars

IsLeapYear(y) == (y % 4 = 0 /\ y % 100 # 0) \/ y % 400 = 0
DaysInMonth(y, m) ==
    CASE m \in {4, 6, 9, 11} -> 30
      [] m = 2 -> IF IsLeapYear(y) THEN 29 ELSE 28
      [] OTHER -> 31
\* the leap years among the years 1..y
LeapYearsThrough(y) == (y \div 4) - (y \div 100) + (y \div 400)
RECURSIVE DaysBeforeMonth(_, _)
DaysBeforeMonth(y, m) ==
    IF m = 1 THEN 0 ELSE DaysBeforeMonth(y, m - 1) + DaysInMonth(y, m - 1)
\* the days from 1970-01-01 to the day d of the month m of the year y
DaysFromEpoch(y, m, d) ==
    365 * (y - 1970) + (LeapYearsThrough(y - 1) - LeapYearsThrough(1969))
        + DaysBeforeMonth(y, m) + (d - 1)

NumberOf(bytes) ==
    IF Len(bytes) = 2 THEN (bytes[1] - 48) * 10 + (bytes[2] - 48)
    ELSE (bytes[1] - 48) * 1000 + (bytes[2] - 48) * 100
             + (bytes[3] - 48) * 10 + (bytes[4] - 48)

\* eight ASCII digits YYYYMMDD that name the date D days after 1970-01-01
IsDateOfDay(digits, D) ==
    /\ Len(digits) = 8
    /\ \A i \in 1..8 : IsAsciiDigit(digits[i])
    /\ LET y == NumberOf(SubSeq(digits, 1, 4))
           m == NumberOf(SubSeq(digits, 5, 6))
           d == NumberOf(SubSeq(digits, 7, 8))
       IN  /\ m \in 1..12
           /\ d \in 1..DaysInMonth(y, m)
           /\ DaysFromEpoch(y, m, d) = D

\* the lexicographic order of two byte strings of the same length
LexLess(a, b) ==
    \E i \in 1..Len(a) : a[i] < b[i] /\ \A j \in 1..(i - 1) : a[j] = b[j]

\* the stores of CACHED_DAY made by publish_date_for_day, each with the
\* digits stored before it
Published ==
    {[day |-> dayHist[i].val, digits |-> digHist[dayHist[i].dview]] :
        i \in 2..Len(dayHist)}

\* C25: for every day number D from 0 through 2932896 publish_date_for_day
\* stores the eight ASCII digits YYYYMMDD of the proleptic-Gregorian date D
\* days after 1970-01-01, and the digits of a later day are greater in
\* lexicographic order.
C25_CalendarDate ==
    /\ \A t \in Threads :
           (pc[t] = "publish2" /\ call[t].day_number \in 0..LAST_DAY) =>
               IsDateOfDay(CachedDigits, call[t].day_number)
    /\ \A p \in Published : p.day \in 0..LAST_DAY => IsDateOfDay(p.digits, p.day)
    /\ \A p, q \in Published :
           (p.day \in 0..LAST_DAY /\ q.day \in 0..LAST_DAY /\ p.day < q.day) =>
               LexLess(p.digits, q.digits)

\* 2000-02-29 and 2000-03-01 have been published, one after the other
C25_Witness ==
    /\ [day |-> 11016, digits |-> <<50, 48, 48, 48, 48, 50, 50, 57>>] \in Published
    /\ [day |-> 11017, digits |-> <<50, 48, 48, 48, 48, 51, 48, 49>>] \in Published

\* where the header "8=" v SOH "9=0000" SOH "35=" has its placeholder digits
PlaceholderPos(v) == Len(BEGIN_STRING_TAG) + Len(v) + 3

\* C26: for each of the versions "FIX.4.4", "FIX.4.2" and "FIXT.1.1" the
\* header written by forge_out_buffer ends at forge_write_start(version) =
\* FORGE_HEADER_LEN = 20, the placeholder "0000" is at offsets 12..15, and
\* update_body_length overwrites those four placeholder digits and nothing
\* else.
C26_HeaderZones ==
    (buffer # << >>) =>
        /\ SubSeq(buffer1, 1, Len(Template(version))) = Template(version)
        /\ Len(Template(version)) = forge_write_start(version)
        /\ forge_write_start(version) = FORGE_HEADER_LEN
        /\ FORGE_HEADER_LEN = 20
        /\ PlaceholderPos(version) = BODY_LENGTH_VALUE_POS
        /\ BODY_LENGTH_VALUE_POS = 12
        /\ LengthField(buffer1) = <<48, 48, 48, 48>>
        /\ (patched # -1) =>
               \A i \in 1..Len(buffer) :
                   (buffer[i] # before[i]) =>
                       i \in (PlaceholderPos(version) + 1)..(PlaceholderPos(version) + 4)

\* C27: update_body_length completes without fault for every end_position,
\* also below 17, and leaves at offsets 12..15 the four ASCII digits of
\* end_position - 17 truncated to 16 bits.
C27_UpdateIsTotal ==
    (patched # -1) =>
        /\ ~faulted
        /\ \A i \in 1..4 : IsAsciiDigit(LengthField(buffer)[i])
        /\ LET truncated == (patched - 17 + 65536) % 65536
           IN  LengthField(buffer) =
                   << 48 + ((truncated \div 1000) % 10), 48 + ((truncated \div 100) % 10),
                      48 + ((truncated \div 10) % 10), 48 + (truncated % 10) >>

---------------------------------------------------------------------------
(* Specification of the ClOrdID field on destinations of any size *)

NextClOrdIDAnySize ==
    \E t \in Threads : BeginClOrdID(t) \/ FetchAdd(t) \/ FinishClOrdIDAnySize(t)
SpecClOrdIDAnySize == InitIdSpec /\ [][NextClOrdIDAnySize]_vars

\* what call k wrote between its tag and the last byte it reports
ClOrdIDValue(k) ==
    SubSeq(clords[k].buf, clords[k].offset + Len(clords[k].tag) + 1,
           clords[k].offset + clords[k].ret - 1)

\* C28: whenever write_tag_and_ClOrdID returns, the bytes between the tag
\* and the trailing 0x01 are the 13 base-36 characters of the ID the call
\* consumed, also when fewer than 13 bytes follow the tag in the buffer.
C28_ValueNeverEmpty ==
    \A k \in 1..Len(clords) :
        /\ clords[k].buf[clords[k].offset + clords[k].ret] = SOH
        /\ Len(ClOrdIDValue(k)) = 13
        /\ \A i \in 1..13 : ClOrdIDValue(k)[i] \in (48..57) \cup (65..90)
        /\ Base36Value(ClOrdIDValue(k)) = ZeroExtend(clords[k].id, 5)

---------------------------------------------------------------------------
(* Specification of all the writers: a primitive writer or a tag combinator
   is called on a destination *)

InitWritersSpec == InitWriteSpec \/ InitFloatSpec \/ InitTagSpec
NextWriters == CodecWrite \/ FloatWrite \/ TagWrite
SpecWriters == InitWritersSpec /\ [][NextWriters]_vars

\* C29: a primitive writer or tag combinator changes only the bytes in
\* [offset, offset + returned length): the bytes before offset and the bytes
\* from offset + returned length on are as they were before the call.
C29_WritersFrame ==
    (clen >= 0) =>
        /\ Len(cbuf) = Len(cbefore)
        /\ SubSeq(cbuf, 1, coff) = SubSeq(cbefore, 1, coff)
        /\ SubSeq(cbuf, coff + clen + 1, Len(cbuf))
              = SubSeq(cbefore, coff + clen + 1, Len(cbefore))

=============================================================================
